---- MODULE Spec2Model ----
(***************************************************************************)
(* GEO analyzer: the multi-provider LLM orchestrator (llm.py) and the      *)
(* catch-up retry / report versioning layer (engine.py).                   *)
(*                                                                         *)
(* SimSpec follows one simulate call prompt by prompt.  Spec follows the     *)
(* callers of GeoSimulationEngine.run and the background jobs started by   *)
(* _schedule_cache_retry; there one step of a thread is one access to the  *)
(* engine's shared state (version store, pending-retry set, notifier), a   *)
(* simulate call is one step, and code that touches only locals is folded  *)
(* into the step before it.                                                *)
(***************************************************************************)
EXTENDS Integers, Sequences, FiniteSets, TLC

(***************************************************************************)
(* Bounds of the model.                                                    *)
(***************************************************************************)
MaxRuns == 2          \* engine.run calls in one behaviour
MaxIterations == 2    \* largest engine.iterations / simulate(iterations=...)

(***************************************************************************)
(* Program constants.                                                      *)
(***************************************************************************)
Attempts == 3         \* llm.py:566  attempts = 3
StrikeLimit == 3      \* llm.py:520  strike_counts[platform_key] >= 3
CacheTTL == 1         \* llm.py:383  cache_ttl (seconds; one tick = cache_ttl)
MinDescriptionLen == 10  \* models.py:59

Providers == <<"doubao", "deepseek">>      \* llm.py:406-409, dict order
ProviderSet == {"doubao", "deepseek"}
PromptTypes == <<"discovery", "evaluation">>   \* llm.py:492-495
CacheNote == "from-cache"                  \* llm.py:518
None == "None"

(***************************************************************************)
(* Texts.  A text is a string of the model's vocabulary; the string        *)
(* operations the code applies (strip+len, lower, keyword search) are      *)
(* tables over that vocabulary.                                            *)
(***************************************************************************)
Companies == {"Mingyu", "MINGYU", "TerrorCo"}
Descriptions == {"flagship geo engine", "Flagship GEO Engine", "too short",
                 "weapon sales portal", "Timeout drill engine", "weapon"}
Emails == {"ops@mingyu.com", "OPS@mingyu.com", "cto@mingyu.com", "not-an-email"}
Texts == Companies \cup Descriptions \cup Emails

\* str.lower()
Lower(s) ==
    CASE s = "MINGYU" -> "mingyu"
      [] s = "Mingyu" -> "mingyu"
      [] s = "TerrorCo" -> "terrorco"
      [] s = "Flagship GEO Engine" -> "flagship geo engine"
      [] s = "Timeout drill engine" -> "timeout drill engine"
      [] s = "OPS@mingyu.com" -> "ops@mingyu.com"
      [] OTHER -> s

\* len(s.strip())
StrippedLen(s) ==
    CASE s = "too short" -> 9
      [] s = "weapon" -> 6
      [] s \in {"flagship geo engine", "Flagship GEO Engine",
                "weapon sales portal"} -> 19
      [] s = "Timeout drill engine" -> 20
      [] s \in {"Mingyu", "MINGYU"} -> 6
      [] s = "TerrorCo" -> 8
      [] OTHER -> 14

\* the SENSITIVE_KEYWORDS (models.py:33-40) that occur in an already lowered text
SensitiveKeywordsIn(lowered) ==
    CASE lowered = "terrorco" -> {"terror"}
      [] lowered \in {"weapon sales portal", "weapon"} -> {"weapon"}
      [] OTHER -> {}

\* EMAIL_RE.match (models.py:42)
EmailMatches(s) == s # "not-an-email"

\* "timeout" in description.lower()  (engine.py:196-197)
HasTimeoutMarker(desc) == Lower(desc) = "timeout drill engine"

(***************************************************************************)
(* Requests (models.py DiagnosisRequest).  Product name and industry are   *)
(* the same in every request of the model.                                 *)
(***************************************************************************)
ProductName == "Aurora GEO"
IndustryValue == "SaaS"

Req(c, d, e) == [company |-> c, desc |-> d, email |-> e]

Requests ==
    { Req("Mingyu", "flagship geo engine", "ops@mingyu.com"),
      Req("MINGYU", "Flagship GEO Engine", "OPS@mingyu.com"),
      Req("Mingyu", "flagship geo engine", "cto@mingyu.com"),
      Req("TerrorCo", "flagship geo engine", "ops@mingyu.com"),
      Req("Mingyu", "weapon sales portal", "ops@mingyu.com"),
      Req("Mingyu", "too short", "ops@mingyu.com"),
      Req("Mingyu", "Timeout drill engine", "ops@mingyu.com"),
      Req("Mingyu", "flagship geo engine", "not-an-email") }

\* DiagnosisRequest._contains_sensitive
ContainsSensitive(text) == SensitiveKeywordsIn(Lower(text)) # {}

\* a validate without the length check
ValidateAnyLength(r) ==
    IF StrippedLen(r.company) = 0 THEN "ValidationError"
    ELSE IF ~EmailMatches(r.email) THEN "ValidationError"
    ELSE IF ContainsSensitive(r.desc) THEN "SensitiveContentError"
    ELSE None

\* DiagnosisRequest.validate: the error it raises, or None.  Company and
\* product names of the model are never blank.
Validate(r) ==
    IF StrippedLen(r.company) = 0 THEN "ValidationError"
    ELSE IF StrippedLen(r.desc) < MinDescriptionLen THEN "ValidationError"
    ELSE IF ~EmailMatches(r.email) THEN "ValidationError"
    ELSE IF ContainsSensitive(r.desc) THEN "SensitiveContentError"
    ELSE None

\* GeoSimulationEngine._version_key over DiagnosisRequest.normalized_full_text
VersionKey(r) ==
    <<Lower(r.company), Lower(ProductName), Lower(r.desc), Lower(IndustryValue),
      Lower(r.email)>>

Keys == {VersionKey(r) : r \in Requests}

(***************************************************************************)
(* Prompts and the response cache (llm.py).                                *)
(***************************************************************************)
\* _sanitize_input: no text of the model holds an e-mail address, a phone
\* number or a street address in a field that goes into a prompt.
SanitizeInput(text) == text

\* _build_discovery_prompt / _build_evaluation_prompt
BuildPrompt(ptype, r) ==
    IF ptype = "discovery" THEN <<"discovery", SanitizeInput(r.desc)>>
    ELSE <<"evaluation", SanitizeInput(r.company), SanitizeInput(ProductName)>>

\* _cache_key: sha256 is taken to be injective
CacheKeyOf(platform, prompt) == <<platform, prompt>>

\* the contents a provider answers with: "rec" names the product and is
\* neutral, "neg" names a competitor only and scores negative
Contents == {"rec", "neg"}
IsRecommended(content) == content = "rec"        \* _is_recommended
\* _score_sentiment, in hundredths: "neg" holds the keyword "bug" (engine.py:27)
ScoreSentiment(content) == IF content = "neg" THEN -15 ELSE 0

LLMCall(task, platform, ptype, content) ==
    [task |-> task, platform |-> platform, ptype |-> ptype,
     content |-> content, sentiment |-> ScoreSentiment(content), cached |-> FALSE]

\* a cache that keeps nothing
WriteCacheNothing(c, key, call, t) == c

\* _write_cache: the cache after the write
WriteCache(c, key, call, t) ==
    [k \in DOMAIN c \cup {key} |-> IF k = key THEN [ts |-> t, call |-> call] ELSE c[k]]

\* a cache that never expires an entry
CacheFreshAlways(c, key, t) == key \in DOMAIN c

\* _read_cache: whether the entry is served
CacheFresh(c, key, t) == key \in DOMAIN c /\ ~(t - c[key].ts > CacheTTL)

\* a cache in which a served entry counts as written again
ReadCacheEffectTouches(c, key, t) ==
    IF key \notin DOMAIN c THEN c
    ELSE IF CacheFresh(c, key, t) THEN [c EXCEPT ![key].ts = t]
    ELSE [k \in DOMAIN c \ {key} |-> c[k]]

\* _read_cache: the cache after the read (an expired entry is dropped)
ReadCacheEffect(c, key, t) ==
    IF key \in DOMAIN c /\ ~CacheFresh(c, key, t)
    THEN [k \in DOMAIN c \ {key} |-> c[k]]
    ELSE c

(***************************************************************************)
(* State.                                                                  *)
(***************************************************************************)
VARIABLES
    clients,       \* LLMOrchestrator.clients: provider -> is a client configured
    iterations,    \* GeoSimulationEngine.iterations / simulate(iterations=...)
    now,           \* time.time()
    cache,         \* LLMOrchestrator._cache: cache key -> [ts, call]
    traceRaw,      \* LLMTraceStore._raw: task id -> sequence of raw entries
    traceSummary,  \* LLMTraceStore._summary: task id -> [payload, at]
    taskq,         \* LLMOrchestrator._task_queue
    pc,            \* thread -> position in its code
    req,           \* thread -> the request it serves
    sim,           \* thread -> the locals of its _simulate_online call
    res,           \* thread -> the LLMRunResult its simulate call returned
    err,           \* thread -> the exception it raised, or None
    versionStore,  \* GeoSimulationEngine._version_store
    pending,       \* GeoSimulationEngine._pending_retry_keys
    messages,      \* ReportUpdateNotifier._messages
    report,        \* thread -> the DiagnosticReport it built, or None
    issued,        \* history: the versions handed out, in the order handed out
    spawned,       \* history: run thread -> did its run schedule a job
    executor,      \* GeoSimulationEngine.retry_executor
    bucket,        \* a TokenBucket: [capacity, rate, tokens, short, updated_at]
    records,       \* SecretsManager._records: name -> [quota_limit, usage, alerted]
    alerts,        \* SecretsManager._alerts
    got            \* history: what the last call of a reader returned or raised

vars == <<clients, iterations, now, cache, traceRaw, traceSummary, taskq, pc, req,
          sim, res, err, versionStore, pending, messages, report, issued,
          spawned, executor, bucket, records, alerts, got>>

orchVars == <<cache, traceRaw, traceSummary, taskq>>
engineVars == <<versionStore, pending, messages, issued, spawned>>
auxVars == <<executor, bucket, records, alerts, got>>

RunIds == 1..MaxRuns
RunT(i) == <<"run", i>>
JobT(i) == <<"job", i>>
SimT == <<"sim", 1>>
RunThreads == {RunT(i) : i \in RunIds}
JobThreads == {JobT(i) : i \in RunIds}
Threads == RunThreads \cup JobThreads \cup {SimT}

IsJob(t) == t[1] = "job"
IsRun(t) == t[1] = "run"

(***************************************************************************)
(* Arithmetic.                                                             *)
(***************************************************************************)
\* Python round(num / den) for num >= 0, den > 0: ties go to the even integer
RoundHalfEven(num, den) ==
    LET q == num \div den
        r == num % den
    IN  IF 2 * r < den THEN q
        ELSE IF 2 * r > den THEN q + 1
        ELSE IF q % 2 = 0 THEN q ELSE q + 1

Max(a, b) == IF a >= b THEN a ELSE b

Idx(p) == CHOOSE i \in 1..Len(Providers) : Providers[i] = p

\* the first provider, in dict order, of a non-empty set of providers
FirstOf(ps) == CHOOSE p \in ps : \A q \in ps : Idx(p) <= Idx(q)

(***************************************************************************)
(* LLMTraceStore (llm.py:269-344).  TTLs in ticks of cache_ttl (one day).  *)
(***************************************************************************)
RawTTL == 30          \* llm.py:275
SummaryTTL == 365     \* llm.py:276

\* _cleanup, raw part: expired entries go, and a task left without entries
CleanupRaw(raw, t) ==
    LET kept(task) == SelectSeq(raw[task], LAMBDA e : t - e.at <= RawTTL)
        live == {task \in DOMAIN raw : kept(task) # <<>>}
    IN  [task \in live |-> kept(task)]

\* a store that expires summaries by the raw time-to-live
CleanupSummaryAsRaw(sm, t) ==
    [task \in {k \in DOMAIN sm : ~(t - sm[k].at > RawTTL)} |-> sm[task]]

\* _cleanup, summary part
CleanupSummary(sm, t) ==
    [task \in {k \in DOMAIN sm : ~(t - sm[k].at > SummaryTTL)} |-> sm[task]]

\* record_raw: _raw after the call
RecordRaw(raw, call, t) ==
    LET e == [platform |-> call.platform, ptype |-> call.ptype,
              content |-> call.content, at |-> t]
        old == IF call.task \in DOMAIN raw THEN raw[call.task] ELSE <<>>
        added == [k \in DOMAIN raw \cup {call.task} |->
                    IF k = call.task THEN Append(old, e) ELSE raw[k]]
    IN  CleanupRaw(added, t)

\* record_summary: _summary after the call
RecordSummary(sm, task, payload, t) ==
    CleanupSummary([k \in DOMAIN sm \cup {task} |->
                      IF k = task THEN [payload |-> payload, at |-> t] ELSE sm[k]], t)

(***************************************************************************)
(* LLMOrchestrator._simulate_online (llm.py:474-552): the locals of one    *)
(* call and the effect of one prompt on them.                              *)
(***************************************************************************)
NoCall == [plat |-> None, outcome |-> None]

NoSim ==
    [task |-> <<>>, iter |-> 0, plat |-> None, ptype |-> None,
     strikes |-> [p \in ProviderSet |-> 0], cov |-> [p \in ProviderSet |-> FALSE],
     note |-> None, active |-> {}, calls |-> <<>>, obs |-> <<>>,
     ncall |-> 0, last |-> NoCall, start |-> <<>>, fin |-> FALSE]

\* an orchestrator that keeps the streaks and the active set of the
\* foreground caller's last call
SimLocalsKept(task, cl, c) ==
    [NoSim EXCEPT !.task = task,
                  !.start = c,
                  !.strikes = sim[<<"sim", 1>>].strikes,
                  !.active = {p \in ProviderSet : cl[p] /\ sim[<<"sim", 1>>].strikes[p] < 3},
                  !.plat = FirstOf({p \in ProviderSet : cl[p]}),
                  !.ptype = "discovery"]

\* llm.py:475-484: the locals when the loop is entered; start is history, the
\* response cache c at that moment
SimLocals(task, cl, c) ==
    [NoSim EXCEPT !.task = task,
                  !.start = c,
                  !.active = {p \in ProviderSet : cl[p]},
                  !.plat = FirstOf({p \in ProviderSet : cl[p]}),
                  !.ptype = "discovery"]

Put(f, k, v) == [x \in DOMAIN f \cup {k} |-> IF x = k THEN v ELSE f[x]]

\* an observation marked cached only by its evaluation call
CallsToObservationByEvaluation(s) ==
    LET hasD == "discovery" \in DOMAIN s.calls
        hasE == "evaluation" \in DOMAIN s.calls
    IN  [ord |-> Len(s.obs) + 1,
         iter |-> s.iter,
         platform |-> s.plat,
         recommended |-> hasD /\ IsRecommended(s.calls["discovery"].content),
         sentiment |-> IF hasE THEN s.calls["evaluation"].sentiment
                       ELSE IF hasD THEN s.calls["discovery"].sentiment ELSE 0,
         cached |-> hasE /\ s.calls["evaluation"].cached]

\* _calls_to_observation (llm.py:621-653); iter is the loop iteration it came from
CallsToObservation(s) ==
    LET hasD == "discovery" \in DOMAIN s.calls
        hasE == "evaluation" \in DOMAIN s.calls
    IN  [ord |-> Len(s.obs) + 1,
         iter |-> s.iter,
         platform |-> s.plat,
         recommended |-> hasD /\ IsRecommended(s.calls["discovery"].content),
         sentiment |-> IF hasE THEN s.calls["evaluation"].sentiment
                       ELSE IF hasD THEN s.calls["discovery"].sentiment ELSE 0,
         cached |-> \E k \in DOMAIN s.calls : s.calls[k].cached]

\* a loop that appends an observation whether or not there was a call
FinishPlatformAlways(s, n) ==
    LET obs2 == Append(s.obs, CallsToObservation(s))
        later == {q \in s.active : Idx(q) > Idx(s.plat)}
        base == [s EXCEPT !.obs = obs2, !.calls = <<>>, !.ptype = "discovery"]
    IN  IF later # {} THEN [base EXCEPT !.plat = FirstOf(later)]
        ELSE IF s.active = {} \/ s.iter + 1 >= n THEN [base EXCEPT !.fin = TRUE]
        ELSE [base EXCEPT !.iter = s.iter + 1, !.plat = FirstOf(s.active)]

\* a loop that makes an observation only of two calls
FinishPlatformOfBoth(s, n) ==
    LET obs2 == IF DOMAIN s.calls # {"discovery", "evaluation"} THEN s.obs
                ELSE Append(s.obs, CallsToObservation(s))
        later == {q \in s.active : Idx(q) > Idx(s.plat)}
        base == [s EXCEPT !.obs = obs2, !.calls = <<>>, !.ptype = "discovery"]
    IN  IF later # {} THEN [base EXCEPT !.plat = FirstOf(later)]
        ELSE IF s.active = {} \/ s.iter + 1 >= n THEN [base EXCEPT !.fin = TRUE]
        ELSE [base EXCEPT !.iter = s.iter + 1, !.plat = FirstOf(s.active)]

\* llm.py:523-535: after the prompts of one provider: the observation, then
\* the next active provider, the next iteration, or the end of the loop
FinishPlatform(s, n) ==
    LET obs2 == IF DOMAIN s.calls = {} THEN s.obs
                ELSE Append(s.obs, CallsToObservation(s))
        later == {q \in s.active : Idx(q) > Idx(s.plat)}
        base == [s EXCEPT !.obs = obs2, !.calls = <<>>, !.ptype = "discovery"]
    IN  IF later # {} THEN [base EXCEPT !.plat = FirstOf(later)]
        ELSE IF s.active = {} \/ s.iter + 1 >= n THEN [base EXCEPT !.fin = TRUE]
        ELSE [base EXCEPT !.iter = s.iter + 1, !.plat = FirstOf(s.active)]

\* llm.py:496: the next prompt of the same provider, if any
NextPrompt(s, n) ==
    IF s.ptype = "discovery" THEN [s EXCEPT !.ptype = "evaluation"]
    ELSE FinishPlatform(s, n)

\* a breaker that trips one failure late
BenchedLate(strikes) == strikes > StrikeLimit

\* llm.py:520: the circuit breaker trips
Benched(strikes) == strikes >= StrikeLimit

\* a loop in which a success leaves the streak as it is
OnSuccessKeepsStreak(s, call, n) ==
    NextPrompt([s EXCEPT !.cov[s.plat] = TRUE,
                         !.calls = Put(s.calls, s.ptype, call)], n)

\* llm.py:508-511: _invoke_client returned a call
OnSuccess(s, call, n) ==
    NextPrompt([s EXCEPT !.strikes[s.plat] = 0,
                         !.cov[s.plat] = TRUE,
                         !.calls = Put(s.calls, s.ptype, call)], n)

\* a fallback that counts a served cache entry as coverage
OnClientErrorCovers(s, c, key, t, n) ==
    LET k == s.strikes[s.plat] + 1
        hit == CacheFresh(c, key, t)
        s1 == [s EXCEPT !.strikes[s.plat] = k,
                        !.cov[s.plat] = @ \/ hit,
                        !.note = IF hit THEN CacheNote ELSE s.note,
                        !.calls = IF hit
                                  THEN Put(s.calls, s.ptype,
                                           [c[key].call EXCEPT !.cached = TRUE])
                                  ELSE s.calls]
    IN  IF Benched(k)
        THEN FinishPlatform([s1 EXCEPT !.active = s.active \ {s.plat}], n)
        ELSE NextPrompt(s1, n)

\* a breaker that benches every provider when one trips
OnClientErrorBenchesAll(s, c, key, t, n) ==
    LET k == s.strikes[s.plat] + 1
        hit == CacheFresh(c, key, t)
        s1 == [s EXCEPT !.strikes[s.plat] = k,
                        !.note = IF hit THEN CacheNote ELSE s.note,
                        !.calls = IF hit
                                  THEN Put(s.calls, s.ptype,
                                           [c[key].call EXCEPT !.cached = TRUE])
                                  ELSE s.calls]
    IN  IF Benched(k)
        THEN FinishPlatform([s1 EXCEPT !.active = {}], n)
        ELSE NextPrompt(s1, n)

\* a fallback that serves the cached call without marking it
OnClientErrorUnmarked(s, c, key, t, n) ==
    LET k == s.strikes[s.plat] + 1
        hit == CacheFresh(c, key, t)
        s1 == [s EXCEPT !.strikes[s.plat] = k,
                        !.note = IF hit THEN CacheNote ELSE s.note,
                        !.calls = IF hit THEN Put(s.calls, s.ptype, c[key].call)
                                  ELSE s.calls]
    IN  IF Benched(k)
        THEN FinishPlatform([s1 EXCEPT !.active = s.active \ {s.plat}], n)
        ELSE NextPrompt(s1, n)

\* llm.py:514-522: _invoke_client raised LLMClientError
OnClientError(s, c, key, t, n) ==
    LET k == s.strikes[s.plat] + 1
        hit == CacheFresh(c, key, t)
        s1 == [s EXCEPT !.strikes[s.plat] = k,
                        !.note = IF hit THEN CacheNote ELSE s.note,
                        !.calls = IF hit
                                  THEN Put(s.calls, s.ptype,
                                           [c[key].call EXCEPT !.cached = TRUE])
                                  ELSE s.calls]
    IN  IF Benched(k)
        THEN FinishPlatform([s1 EXCEPT !.active = s.active \ {s.plat}], n)
        ELSE NextPrompt(s1, n)

\* a result that is never flagged
SimResultUnflagged(s) ==
    [task |-> s.task, observations |-> s.obs, coverage |-> s.cov,
     cache_note |-> s.note, degraded |-> FALSE]

\* llm.py:537-552
SimResult(s) ==
    [task |-> s.task, observations |-> s.obs, coverage |-> s.cov,
     cache_note |-> s.note, degraded |-> s.obs = <<>>]

NoResult ==
    [task |-> <<>>, observations |-> <<>>,
     coverage |-> [p \in ProviderSet |-> FALSE], cache_note |-> None,
     degraded |-> FALSE]

(***************************************************************************)
(* LLMOrchestrator._simulate_offline (llm.py:424-472).  No description of  *)
(* the model holds a lexicon keyword: base_strength 0.45, negative_ratio   *)
(* 0.1.  Sentiments are in hundredths.                                     *)
(***************************************************************************)
BaseStrength(desc) == 45
NegativeRatio(desc) == 10

OfflineObservation(i, n, r) ==
    LET iteration == (i - 1) % n
        platform == Providers[((i - 1) \div n) + 1]
    IN  [ord |-> i,
         iter |-> iteration,
         platform |-> platform,
         recommended |-> iteration < RoundHalfEven(n * BaseStrength(r.desc), 100),
         sentiment |-> IF iteration < RoundHalfEven(n * NegativeRatio(r.desc), 100)
                       THEN -30 ELSE 20,
         cached |-> FALSE]

OfflineResult(task, r, n) ==
    [task |-> task,
     observations |-> [i \in 1..(Len(Providers) * n) |-> OfflineObservation(i, n, r)],
     coverage |-> [p \in ProviderSet |-> FALSE],
     cache_note |-> None,
     degraded |-> FALSE]

(***************************************************************************)
(* One prompt of the live loop (llm.py:496-522) on the orchestrator state  *)
(* w = [s, cache, trace, err], for request r and the outcome o of          *)
(* _invoke_client (llm.py:554-619):                                        *)
(*   a content   - a response with that content: the call is traced        *)
(*                 (llm.py:604) and cached (llm.py:511)                    *)
(*   "exhausted" - every attempt failed: LLMClientError (llm.py:572-577)   *)
(*   "nochoices" - a response without choices: LLMClientError (582-583)    *)
(*   "sensitive" - the content holds a sensitive keyword (586-587)         *)
(*   "nokey"     - the secret is gone when the headers are built: KeyError *)
(*                 (llm.py:47-51, 148-149), which simulate does not catch  *)
(***************************************************************************)
Outcomes == Contents \cup {"exhausted", "nochoices", "sensitive", "nokey"}

\* history: the prompts sent by this call, and the last provider asked
Noted(s, o) ==
    [s EXCEPT !.ncall = @ + 1, !.last = [plat |-> s.plat, outcome |-> o]]

\* an abort that leaves the offending response in the cache
OnSensitiveCached(w, s, key, call, t) ==
    [w EXCEPT !.s = s, !.err = "SensitiveContentError",
              !.cache = WriteCache(w.cache, key, call, t)]

\* llm.py:586-587, 512-513: the response is sensitive: _invoke_client raises
\* before record_raw, and _simulate_online lets the error through
OnSensitive(w, s, key, call, t) ==
    [w EXCEPT !.s = s, !.err = "SensitiveContentError"]

PromptStep(w, o, r, n, t) ==
    LET s == Noted(w.s, o)
        key == CacheKeyOf(s.plat, BuildPrompt(s.ptype, r))
        call == LLMCall(s.task, s.plat, s.ptype, o)
    IN  IF o \in Contents
        THEN [s |-> OnSuccess(s, call, n),
              cache |-> WriteCache(w.cache, key, call, t),
              trace |-> RecordRaw(w.trace, call, t),
              err |-> None]
        ELSE IF o \in {"exhausted", "nochoices"}
        THEN [s |-> OnClientError(s, w.cache, key, t, n),
              cache |-> ReadCacheEffect(w.cache, key, t),
              trace |-> w.trace,
              err |-> None]
        ELSE IF o = "sensitive"
        THEN OnSensitive(w, s, key, call, t)
        ELSE [w EXCEPT !.s = s, !.err = "KeyError"]

(***************************************************************************)
(* SimSpec: one caller of simulate (llm.py:419-422), prompt by prompt.     *)
(***************************************************************************)
\* two requests that share the discovery prompt and differ in the evaluation one
SimRequests ==
    { Req("Mingyu", "flagship geo engine", "ops@mingyu.com"),
      Req("TerrorCo", "flagship geo engine", "ops@mingyu.com") }

World(t) == [s |-> sim[t], cache |-> cache, trace |-> traceRaw, err |-> None]

SimStart ==
    /\ pc[SimT] = "idle"
    /\ \E r \in SimRequests :
        LET task == <<SimT, 1>> IN
        /\ req' = [req EXCEPT ![SimT] = r]
        /\ IF \A p \in ProviderSet : ~clients[p]
           THEN /\ res' = [res EXCEPT ![SimT] = OfflineResult(task, r, iterations)]
                /\ pc' = [pc EXCEPT ![SimT] = "simret"]
                /\ UNCHANGED <<sim, taskq>>
           ELSE /\ taskq' = Append(taskq, task)
                /\ sim' = [sim EXCEPT ![SimT] = SimLocals(task, clients, cache)]
                /\ pc' = [pc EXCEPT ![SimT] = "call"]
                /\ UNCHANGED res
    /\ UNCHANGED auxVars
    /\ UNCHANGED <<clients, iterations, now, cache, traceRaw, traceSummary, err, report>>
    /\ UNCHANGED engineVars

\* one prompt with an outcome of the set os
SimCall(os) ==
    /\ pc[SimT] = "call"
    /\ \E o \in os :
        LET w == PromptStep(World(SimT), o, req[SimT], iterations, now) IN
        /\ sim' = [sim EXCEPT ![SimT] = w.s]
        /\ cache' = w.cache
        /\ traceRaw' = w.trace
        /\ err' = [err EXCEPT ![SimT] = w.err]
        /\ pc' = [pc EXCEPT ![SimT] = IF w.err # None THEN "raised"
                                      ELSE IF w.s.fin THEN "simret" ELSE "call"]
        /\ res' = [res EXCEPT ![SimT] = IF w.err = None /\ w.s.fin
                                       THEN SimResult(w.s) ELSE res[SimT]]
    /\ UNCHANGED auxVars
    /\ UNCHANGED <<clients, iterations, now, traceSummary, taskq, req, report>>
    /\ UNCHANGED engineVars

SimCallOk == SimCall(Contents)
SimCallFailed == SimCall({"exhausted", "nochoices"})
SimCallSensitive == SimCall({"sensitive"})
SimCallNoKey == SimCall({"nokey"})

(***************************************************************************)
(* Spec: GeoSimulationEngine (engine.py).  A simulate call is one step:    *)
(* the loop above, run to its end against a script of provider outcomes.   *)
(* The k-th prompt of the call gets the k-th outcome of the script, and    *)
(* the last outcome of the script from then on.                            *)
(***************************************************************************)
Scripts ==
    { <<"rec">>,                        \* every call answers, naming the product
      <<"exhausted">>,                  \* every call fails
      <<"rec", "rec", "exhausted">>,    \* the provider goes down after two calls
      <<"rec", "sensitive">>,           \* the second answer is blocked
      <<"nokey">> }                     \* the secret has been revoked

ScriptAt(script, k) == script[IF k <= Len(script) THEN k ELSE Len(script)]

RECURSIVE RunLoop(_, _, _, _, _)
RunLoop(w, script, r, n, t) ==
    IF w.s.fin \/ w.err # None THEN w
    ELSE RunLoop(PromptStep(w, ScriptAt(script, w.s.ncall + 1), r, n, t),
                 script, r, n, t)

\* simulate (llm.py:419-422) by thread t under a script: [res, cache, trace,
\* taskq, err] and the final locals s
Simulate(t, r, script) ==
    LET task == <<t, 1>> IN
    IF \A p \in ProviderSet : ~clients[p]
    THEN [res |-> OfflineResult(task, r, iterations), cache |-> cache,
          trace |-> traceRaw, taskq |-> taskq, err |-> None, s |-> NoSim]
    ELSE LET w == RunLoop([s |-> SimLocals(task, clients, cache), cache |-> cache,
                           trace |-> traceRaw, err |-> None],
                          script, r, iterations, now)
         IN  [res |-> IF w.err = None THEN SimResult(w.s)
                      ELSE [NoResult EXCEPT !.task = task],
              cache |-> w.cache, trace |-> w.trace,
              taskq |-> Append(taskq, task), err |-> w.err, s |-> w.s]

(***************************************************************************)
(* Metrics (engine.py:155-190, 240-326).  Percentages are in hundredths of *)
(* a percent.                                                              *)
(***************************************************************************)
BenchmarkRate == 27       \* models.py:21, Industry.SAAS
EstimationNote == "Based on Industry Estimation"

\* an estimate without snapshots
IndustryEstimationBare(result, n) ==
    [sov |-> BenchmarkRate * 100,
     rec |-> RoundHalfEven(n * BenchmarkRate, 100),
     neg |-> 800,
     coverage |-> result.coverage,
     cache_note |-> result.cache_note,
     degraded |-> TRUE,
     estimation |-> EstimationNote,
     snapshots |-> 0]

\* _generate_industry_estimation
IndustryEstimation(result, n) ==
    [sov |-> BenchmarkRate * 100,
     rec |-> RoundHalfEven(n * BenchmarkRate, 100),
     neg |-> 800,
     coverage |-> result.coverage,
     cache_note |-> result.cache_note,
     degraded |-> TRUE,
     estimation |-> EstimationNote,
     snapshots |-> n \div 5]

\* _build_metrics_from_observations, with coverage and cache_note as the
\* caller sets them (engine.py:235-236, 393-394)
BuildMetrics(obs, n, coverage, note) ==
    LET recs == Cardinality({i \in 1..Len(obs) : obs[i].recommended})
        negs == Cardinality({i \in 1..Len(obs) : obs[i].sentiment < 0})
        covered == Cardinality({p \in ProviderSet : coverage[p]})
        platforms == Cardinality({obs[i].platform : i \in 1..Len(obs)})
        active == IF covered = 0 THEN Max(1, platforms) ELSE covered
        avg == RoundHalfEven(recs, Max(1, active))
    IN  [sov |-> RoundHalfEven(avg * 10000, Max(1, n)),
         rec |-> avg,
         neg |-> RoundHalfEven(negs * 10000, Max(1, Len(obs))),
         coverage |-> coverage,
         cache_note |-> note,
         degraded |-> FALSE,
         estimation |-> None,
         snapshots |-> Len(obs) \div 5]


\* an engine that estimates whenever no provider is covered
RunMetricsUncovered(result, r, n) ==
    IF HasTimeoutMarker(r.desc) \/ result.degraded \/ result.observations = <<>>
       \/ \A p \in ProviderSet : ~result.coverage[p]
    THEN IndustryEstimation(result, n)
    ELSE BuildMetrics(result.observations, n, result.coverage, result.cache_note)

\* _run_simulation (engine.py:192-238) on the result of simulate
RunMetrics(result, r, n) ==
    LET forced == HasTimeoutMarker(r.desc)
        obs == IF forced THEN <<>> ELSE result.observations
    IN  IF forced \/ result.degraded \/ obs = <<>>
        THEN IndustryEstimation(result, n)
        ELSE BuildMetrics(obs, n, result.coverage, result.cache_note)

\* the payload of _record_trace_summary (engine.py:328-342)
SummaryOf(m) ==
    [sov |-> m.sov, neg |-> m.neg, rec |-> m.rec, coverage |-> m.coverage,
     degraded |-> m.degraded, cache_note |-> m.cache_note]

NoMetrics ==
    [sov |-> 0, rec |-> 0, neg |-> 0, coverage |-> [p \in ProviderSet |-> FALSE],
     cache_note |-> None, degraded |-> FALSE, estimation |-> None, snapshots |-> 0]

NoRequest == Req(None, None, None)

\* the requests the callers of run send: two spellings of one request (one
\* version key), one with another company, and three that validate rejects
\* (the last one is both too short and sensitive)
RunRequests ==
    { Req("Mingyu", "flagship geo engine", "ops@mingyu.com"),
      Req("MINGYU", "Flagship GEO Engine", "OPS@mingyu.com"),
      Req("TerrorCo", "flagship geo engine", "ops@mingyu.com"),
      Req("Mingyu", "weapon sales portal", "ops@mingyu.com"),
      Req("Mingyu", "too short", "ops@mingyu.com"),
      Req("Mingyu", "weapon", "ops@mingyu.com") }
NoReport == [key |-> <<>>, task |-> <<>>, version |-> 0, metrics |-> NoMetrics]

\* the identity keys of the requests that pass validate
RunKeys == {VersionKey(r) : r \in {q \in RunRequests : Validate(q) = None}}

\* a counter that skips a number
NextVersionByTwo(store, key) == (IF key \in DOMAIN store THEN store[key] ELSE 0) + 2

\* a counter that hands out the stored number again
NextVersionStuck(store, key) == IF key \in DOMAIN store THEN store[key] ELSE 1

\* _next_report_version_for_key (engine.py:419-423): the version handed out
NextVersion(store, key) == (IF key \in DOMAIN store THEN store[key] ELSE 0) + 1

\* the whole of _next_report_version_for_key, under _version_lock; issued is
\* the history of what it returned
IssueVersion(t, key, kind) ==
    LET v == NextVersion(versionStore, key) IN
    /\ versionStore' = Put(versionStore, key, v)
    /\ issued' = Append(issued, [key |-> key, version |-> v, kind |-> kind, by |-> t])
    /\ report' = [report EXCEPT ![t].version = v]

JobOf(t) == JobT(t[2])
RunOf(j) == RunT(j[2])

\* threads are interchangeable: run i + 1 does not start before run i
MayStart(t) ==
    /\ pc[t] = "idle"
    /\ \A i \in RunIds : i < t[2] => pc[RunT(i)] # "idle"

\* a run that takes a version number before it validates
RunRejectedCounted(t) ==
    /\ MayStart(t)
    /\ \E r \in RunRequests :
        /\ Validate(r) # None
        /\ req' = [req EXCEPT ![t] = r]
        /\ err' = [err EXCEPT ![t] = Validate(r)]
        /\ versionStore' = Put(versionStore, VersionKey(r),
                               NextVersion(versionStore, VersionKey(r)))
    /\ pc' = [pc EXCEPT ![t] = "raised"]
    /\ UNCHANGED auxVars
    /\ UNCHANGED <<clients, iterations, now, sim, res, report>>
    /\ UNCHANGED orchVars
    /\ UNCHANGED <<pending, messages, issued, spawned>>

\* run (engine.py:82-83): request.validate() raises
RunRejected(t) ==
    /\ MayStart(t)
    /\ \E r \in RunRequests :
        /\ Validate(r) # None
        /\ req' = [req EXCEPT ![t] = r]
        /\ err' = [err EXCEPT ![t] = Validate(r)]
    /\ pc' = [pc EXCEPT ![t] = "raised"]
    /\ UNCHANGED auxVars
    /\ UNCHANGED <<clients, iterations, now, sim, res, report>>
    /\ UNCHANGED orchVars
    /\ UNCHANGED engineVars

\* run (engine.py:82-132): validate, then _run_simulation: simulate, the
\* metrics and the trace summary
RunSimulation(t) ==
    /\ MayStart(t)
    /\ \E r \in RunRequests, script \in Scripts :
        LET o == Simulate(t, r, script)
            m == RunMetrics(o.res, r, iterations)
        IN  /\ Validate(r) = None
            /\ req' = [req EXCEPT ![t] = r]
            /\ sim' = [sim EXCEPT ![t] = o.s]
            /\ cache' = o.cache
            /\ traceRaw' = o.trace
            /\ taskq' = o.taskq
            /\ err' = [err EXCEPT ![t] = o.err]
            /\ IF o.err # None
               THEN /\ pc' = [pc EXCEPT ![t] = "raised"]
                    /\ UNCHANGED <<res, report, traceSummary>>
               ELSE /\ pc' = [pc EXCEPT ![t] = "version"]
                    /\ res' = [res EXCEPT ![t] = o.res]
                    /\ traceSummary' = RecordSummary(traceSummary, o.res.task,
                                                     SummaryOf(m), now)
                    /\ report' = [report EXCEPT ![t] =
                                    [NoReport EXCEPT !.key = VersionKey(r),
                                                     !.task = o.res.task,
                                                     !.metrics = m]]
    /\ UNCHANGED auxVars
    /\ UNCHANGED <<clients, iterations, now>>
    /\ UNCHANGED engineVars

\* run (engine.py:133-150): the version and the report; without a cache note
\* the report goes to the caller
RunVersion(t) ==
    /\ pc[t] = "version"
    /\ IssueVersion(t, VersionKey(req[t]), "report")
    /\ pc' = [pc EXCEPT ![t] = IF report[t].metrics.cache_note # None
                               THEN "sched" ELSE "done"]
    /\ UNCHANGED auxVars
    /\ UNCHANGED <<clients, iterations, now, req, sim, res, err>>
    /\ UNCHANGED orchVars
    /\ UNCHANGED <<pending, messages, spawned>>

\* a scheduler that does not look at the pending set
SchedulesAlways(pend, key) == TRUE

\* _schedule_cache_retry (engine.py:344-368): whether a job is started
Schedules(pend, key) == key \notin pend

\* run (engine.py:145-150): _schedule_cache_retry and the executor, which
\* starts a thread for the job (engine.py:425-427); the report goes to the
\* caller
RunSchedule(t) ==
    /\ pc[t] = "sched"
    /\ LET key == VersionKey(req[t]) IN
       IF Schedules(pending, key)
       THEN /\ pending' = pending \cup {key}
            /\ spawned' = [spawned EXCEPT ![t] = TRUE]
            /\ pc' = [pc EXCEPT ![t] = "done", ![JobOf(t)] = "jstart"]
            /\ req' = [req EXCEPT ![JobOf(t)] = req[t]]
       ELSE /\ pc' = [pc EXCEPT ![t] = "done"]
            /\ UNCHANGED <<pending, spawned, req>>
    /\ UNCHANGED auxVars
    /\ UNCHANGED <<clients, iterations, now, sim, res, err, report>>
    /\ UNCHANGED orchVars
    /\ UNCHANGED <<versionStore, messages, issued>>

\* a job that reports whatever it got
SilentNever(result) == FALSE

\* _retry_realtime_refresh (engine.py:384): the job ends without a word
Silent(result) ==
    result.cache_note # None \/ result.degraded \/ result.observations = <<>>

\* _retry_realtime_refresh (engine.py:377-395): simulate again; on a live
\* result the metrics and the trace summary
JobSimulation(j) ==
    /\ pc[j] = "jstart"
    /\ \E script \in Scripts :
        LET o == Simulate(j, req[j], script)
            m == BuildMetrics(o.res.observations, iterations, o.res.coverage, None)
        IN  /\ sim' = [sim EXCEPT ![j] = o.s]
            /\ cache' = o.cache
            /\ traceRaw' = o.trace
            /\ taskq' = o.taskq
            /\ err' = [err EXCEPT ![j] = o.err]
            /\ IF o.err # None
               THEN /\ pc' = [pc EXCEPT ![j] = "jfinally"]
                    /\ UNCHANGED <<res, report, traceSummary>>
               ELSE /\ res' = [res EXCEPT ![j] = o.res]
                    /\ IF Silent(o.res)
                       THEN /\ pc' = [pc EXCEPT ![j] = "jfinally"]
                            /\ UNCHANGED <<report, traceSummary>>
                       ELSE /\ pc' = [pc EXCEPT ![j] = "jversion"]
                            /\ traceSummary' = RecordSummary(traceSummary, o.res.task,
                                                             SummaryOf(m), now)
                            /\ report' = [report EXCEPT ![j] =
                                            [NoReport EXCEPT
                                               !.key = VersionKey(req[j]),
                                               !.task = o.res.task,
                                               !.metrics = m]]
    /\ UNCHANGED auxVars
    /\ UNCHANGED <<clients, iterations, now, req>>
    /\ UNCHANGED engineVars

\* _retry_realtime_refresh (engine.py:398-408): the report of the update
JobVersion(j) ==
    /\ pc[j] = "jversion"
    /\ IssueVersion(j, VersionKey(req[j]), "update")
    /\ pc' = [pc EXCEPT ![j] = "jnotify"]
    /\ UNCHANGED auxVars
    /\ UNCHANGED <<clients, iterations, now, req, sim, res, err>>
    /\ UNCHANGED orchVars
    /\ UNCHANGED <<pending, messages, spawned>>

\* a notifier that loses the message
DropReportUpdate(msgs, r, rep, j) == msgs

\* ReportUpdateNotifier.send_report_update (notifier.py:27-43)
SendReportUpdate(msgs, r, rep, j) ==
    Append(msgs, [to |-> r.email, version |-> rep.version, task |-> rep.task,
                  sov |-> rep.metrics.sov, neg |-> rep.metrics.neg, by |-> j])

\* _retry_realtime_refresh (engine.py:409)
JobNotify(j) ==
    /\ pc[j] = "jnotify"
    /\ messages' = SendReportUpdate(messages, req[j], report[j], j)
    /\ pc' = [pc EXCEPT ![j] = "jfinally"]
    /\ UNCHANGED auxVars
    /\ UNCHANGED <<clients, iterations, now, req, sim, res, err, report>>
    /\ UNCHANGED orchVars
    /\ UNCHANGED <<versionStore, pending, issued, spawned>>

\* a job that leaves its key behind
DiscardNothing(pend, key) == pend

\* engine.py:365-366: _pending_retry_keys.discard(retry_key)
Discard(pend, key) == pend \ {key}

\* job (engine.py:361-366): finally, the key leaves the pending set
JobFinally(j) ==
    /\ pc[j] = "jfinally"
    /\ pending' = Discard(pending, VersionKey(req[j]))
    /\ pc' = [pc EXCEPT ![j] = "done"]
    /\ UNCHANGED auxVars
    /\ UNCHANGED <<clients, iterations, now, req, sim, res, err, report>>
    /\ UNCHANGED orchVars
    /\ UNCHANGED <<versionStore, messages, issued, spawned>>

(***************************************************************************)
(* The specifications.                                                     *)
(***************************************************************************)

NoBucket == [capacity |-> 0, rate |-> 0, tokens |-> 0, short |-> 0, updated_at |-> 0]

\* no reader has been called
NoGot == [op |-> None]

\* no token bucket, no registry and no reader take part
AuxIdle ==
    /\ bucket = NoBucket
    /\ records = <<>>
    /\ alerts = <<>>
    /\ got = NoGot

InitCommon ==
    /\ now = 0
    /\ cache = <<>>
    /\ traceRaw = <<>>
    /\ traceSummary = <<>>
    /\ taskq = <<>>
    /\ req = [t \in Threads |-> NoRequest]
    /\ sim = [t \in Threads |-> NoSim]
    /\ res = [t \in Threads |-> NoResult]
    /\ err = [t \in Threads |-> None]
    /\ versionStore = <<>>
    /\ pending = {}
    /\ messages = <<>>
    /\ report = [t \in Threads |-> NoReport]
    /\ issued = <<>>
    /\ spawned = [t \in RunThreads |-> FALSE]

SimInit ==
    /\ InitCommon
    /\ clients \in [ProviderSet -> BOOLEAN]
    /\ iterations \in 1..MaxIterations
    /\ pc = [t \in Threads |-> IF t = SimT THEN "idle" ELSE "none"]
    /\ executor = "thread"
    /\ AuxIdle

SimNext ==
    \/ SimStart
    \/ SimCallOk
    \/ SimCallFailed
    \/ SimCallSensitive
    \/ SimCallNoKey

SimSpec == SimInit /\ [][SimNext]_vars

Init ==
    /\ InitCommon
    /\ clients \in [ProviderSet -> BOOLEAN]
    /\ iterations \in 1..MaxIterations
    /\ pc = [t \in Threads |-> IF IsRun(t) THEN "idle" ELSE "none"]
    /\ executor = "thread"
    /\ AuxIdle

Next ==
    \/ \E t \in RunThreads :
        \/ RunRejected(t)
        \/ RunSimulation(t)
        \/ RunVersion(t)
        \/ RunSchedule(t)
    \/ \E j \in JobThreads :
        \/ JobSimulation(j)
        \/ JobVersion(j)
        \/ JobNotify(j)
        \/ JobFinally(j)

Spec == Init /\ [][Next]_vars

\* A job runs on a thread of its own (engine.py:425-427), which the scheduler
\* does not starve.  JobAdvance(j) is the next step of job j as pc shows it:
\* each of JobSimulation, JobVersion, JobNotify and JobFinally moves pc[j]
\* forward, one of them is enabled as long as the job has not finished, and
\* no other step changes the pc of a started job.
JobAdvance(j) ==
    /\ pc[j] \in {"jstart", "jversion", "jnotify", "jfinally"}
    /\ pc' \in {[pc EXCEPT ![j] = x] : x \in {"jversion", "jnotify", "jfinally", "done"}}

FairSpec == Spec /\ \A j \in JobThreads : WF_pc(JobAdvance(j))

(***************************************************************************)
(* ExecSpec: the engine with the executor as its caller supplies it        *)
(* (engine.py:64, 71).  "thread" is _default_retry_executor                *)
(* (engine.py:425-427), "immediate" calls the job on the spot              *)
(* (tests/test_geo_engine.py:179-180).  Here the return of run is a step   *)
(* of its own, after retry_executor(job) has returned.                     *)
(***************************************************************************)
Executors == {"thread", "immediate"}

\* C11, as claimed: run returns the report to its caller before the job it
\* scheduled completes, whatever the executor.
C11_ReturnsBeforeJobCompletes ==
    \A t \in RunThreads : pc[JobOf(t)] = "done" => pc[t] = "done"

\* an executor that never runs the job itself
ExecutorNeverWaits(ex) == FALSE

\* whether retry_executor(job) returns only after job() has returned
ExecutorWaits(ex) == ex = "immediate"

\* _schedule_cache_retry (engine.py:351-368) up to the call of the executor
RunSubmit(t) ==
    /\ pc[t] = "sched"
    /\ LET key == VersionKey(req[t]) IN
       IF Schedules(pending, key)
       THEN /\ pending' = pending \cup {key}
            /\ spawned' = [spawned EXCEPT ![t] = TRUE]
            /\ pc' = [pc EXCEPT ![t] = "submitted", ![JobOf(t)] = "jstart"]
            /\ req' = [req EXCEPT ![JobOf(t)] = req[t]]
       ELSE /\ pc' = [pc EXCEPT ![t] = "done"]
            /\ UNCHANGED <<pending, spawned, req>>
    /\ UNCHANGED auxVars
    /\ UNCHANGED <<clients, iterations, now, sim, res, err, report>>
    /\ UNCHANGED orchVars
    /\ UNCHANGED <<versionStore, messages, issued>>

\* run (engine.py:150), once retry_executor(job) has returned (engine.py:368);
\* what the job raised inside a waiting executor comes out of run
RunReturn(t) ==
    /\ pc[t] = "submitted"
    /\ ExecutorWaits(executor) => pc[JobOf(t)] = "done"
    /\ IF ExecutorWaits(executor) /\ err[JobOf(t)] = "KeyError"
       THEN /\ pc' = [pc EXCEPT ![t] = "raised"]
            /\ err' = [err EXCEPT ![t] = "KeyError"]
       ELSE /\ pc' = [pc EXCEPT ![t] = "done"]
            /\ UNCHANGED err
    /\ UNCHANGED auxVars
    /\ UNCHANGED <<clients, iterations, now, req, sim, res, report>>
    /\ UNCHANGED orchVars
    /\ UNCHANGED engineVars

ExecInit ==
    /\ InitCommon
    /\ clients = [p \in ProviderSet |-> TRUE]
    /\ iterations = MaxIterations
    /\ pc = [t \in Threads |-> IF IsRun(t) THEN "idle" ELSE "none"]
    /\ executor \in Executors
    /\ AuxIdle

ExecNext ==
    \/ \E t \in RunThreads :
        \/ RunRejected(t)
        \/ RunSimulation(t)
        \/ RunVersion(t)
        \/ RunSubmit(t)
        \/ RunReturn(t)
    \/ \E j \in JobThreads :
        \/ JobSimulation(j)
        \/ JobVersion(j)
        \/ JobNotify(j)
        \/ JobFinally(j)

ExecSpec == ExecInit /\ [][ExecNext]_vars

(***************************************************************************)
(* BucketSpec: one TokenBucket (llm.py:99-123) and its clock.  Here now is *)
(* time.monotonic() in minutes, so that a refill of m minutes at a rate of *)
(* r per minute is r * m tokens.  The bucket holds a float: tokens and     *)
(* short stand for the float tokens, or, when short = 1, for the float     *)
(* just below tokens that the rounded product elapsed * refill_rate gives. *)
(***************************************************************************)
MaxMinutes == 6

\* the buckets of the model: TokenBucket(capacity, refill_rate_per_min)
BucketConfigs ==
    { [capacity |-> 55, rate |-> 11],
      [capacity |-> 2, rate |-> 1],
      [capacity |-> 2, rate |-> 120] }

\* llm.py:120: whether the float elapsed * refill_rate, for elapsed = 60.0 * m
\* and refill_rate = rate / 60.0, is below the number rate * m (IEEE 754
\* doubles: 300.0 * (11 / 60.0) = 54.99999999999999)
RefillShort(rate, m) == rate = 11 /\ m \in {5, 10, 11}

\* TokenBucket.__init__ (llm.py:102-107) at time t
NewBucket(c, t) ==
    [capacity |-> c.capacity, rate |-> c.rate, tokens |-> c.capacity, short |-> 0,
     updated_at |-> t]

\* a refill that forgets the capacity
RefillUncapped(b, t) ==
    IF t - b.updated_at <= 0 THEN b
    ELSE [b EXCEPT !.tokens = b.tokens + b.rate * (t - b.updated_at),
                   !.updated_at = t]

\* TokenBucket._refill (llm.py:116-123) at time t
Refill(b, t) ==
    LET elapsed == t - b.updated_at
        sum == b.tokens + b.rate * elapsed
        below == b.short = 1 \/ RefillShort(b.rate, elapsed)
    IN  IF elapsed <= 0 THEN b
        ELSE IF sum > b.capacity \/ (sum = b.capacity /\ ~below)
        THEN [b EXCEPT !.tokens = b.capacity, !.short = 0, !.updated_at = t]
        ELSE [b EXCEPT !.tokens = sum, !.short = IF below THEN 1 ELSE 0,
                       !.updated_at = t]

\* a bucket that never refuses
InsufficientNever(n, b) == FALSE

\* llm.py:112: tokens > self.tokens
Insufficient(n, b) == n > b.tokens \/ (n = b.tokens /\ b.short = 1)

\* TokenBucket.consume(n) (llm.py:109-114); got keeps, as history, the bucket
\* the call found: whether it was empty, and the minutes since its last update
BucketConsume ==
    /\ bucket # NoBucket
    /\ \E n \in {1, bucket.capacity} :
        LET b == Refill(bucket, now)
            call == [op |-> "consume", n |-> n,
                     empty |-> bucket.tokens = 0 /\ bucket.short = 0,
                     elapsed |-> now - bucket.updated_at]
        IN  IF Insufficient(n, b)
            THEN /\ bucket' = b
                 /\ got' = call @@ [out |-> "RateLimitError"]
            ELSE /\ bucket' = [b EXCEPT !.tokens = b.tokens - n]
                 /\ got' = call @@ [out |-> "ok"]
    /\ UNCHANGED <<clients, iterations, now, pc, req, sim, res, err, report>>
    /\ UNCHANGED orchVars
    /\ UNCHANGED engineVars
    /\ UNCHANGED <<executor, records, alerts>>

\* a minute passes
BucketTick ==
    /\ bucket # NoBucket
    /\ now < MaxMinutes
    /\ now' = now + 1
    /\ UNCHANGED <<clients, iterations, pc, req, sim, res, err, report>>
    /\ UNCHANGED orchVars
    /\ UNCHANGED engineVars
    /\ UNCHANGED auxVars

\* no thread of the orchestrator or the engine takes part
ThreadsIdle ==
    /\ clients = [p \in ProviderSet |-> FALSE]
    /\ iterations = 1
    /\ pc = [t \in Threads |-> "none"]
    /\ executor = "thread"

BucketInit ==
    /\ InitCommon
    /\ ThreadsIdle
    /\ bucket \in {NewBucket(c, 0) : c \in BucketConfigs}
    /\ records = <<>>
    /\ alerts = <<>>
    /\ got = NoGot

BucketNext == BucketConsume \/ BucketTick

BucketSpec == BucketInit /\ [][BucketNext]_vars

(***************************************************************************)
(* CacheSpec: the response cache (llm.py:674-685) under its clock.  Here   *)
(* now is time.time() in units of cache_ttl (one day).                     *)
(***************************************************************************)
MaxDays == 3

\* the keys the model writes and reads: the discovery prompt of one request,
\* per provider
CacheRequest == Req("Mingyu", "flagship geo engine", "ops@mingyu.com")
CacheKeys == {CacheKeyOf(p, BuildPrompt("discovery", CacheRequest)) : p \in ProviderSet}

\* history: the last write per key, as the writer saw it
Writes == IF got.op = None THEN <<>> ELSE got.writes

\* _write_cache(key, call) (llm.py:674-675)
CacheWriteStep ==
    /\ \E p \in ProviderSet, content \in Contents :
        LET key == CacheKeyOf(p, BuildPrompt("discovery", CacheRequest))
            call == LLMCall(<<SimT, 1>>, p, "discovery", content)
        IN  /\ cache' = WriteCache(cache, key, call, now)
            /\ got' = [op |-> "write", key |-> key, at |-> now, hit |-> FALSE,
                       call |-> call,
                       writes |-> Put(Writes, key, [at |-> now, call |-> call])]
    /\ UNCHANGED <<clients, iterations, now, traceRaw, traceSummary, taskq, pc, req,
                   sim, res, err, report>>
    /\ UNCHANGED engineVars
    /\ UNCHANGED <<executor, bucket, records, alerts>>

\* _read_cache(key) (llm.py:677-685): what it returns, and the entry it drops
CacheReadStep ==
    /\ \E key \in CacheKeys :
        LET hit == CacheFresh(cache, key, now) IN
        /\ cache' = ReadCacheEffect(cache, key, now)
        /\ got' = [op |-> "read", key |-> key, at |-> now, hit |-> hit,
                   call |-> IF hit THEN cache[key].call
                            ELSE LLMCall(<<>>, None, None, None),
                   writes |-> Writes]
    /\ UNCHANGED <<clients, iterations, now, traceRaw, traceSummary, taskq, pc, req,
                   sim, res, err, report>>
    /\ UNCHANGED engineVars
    /\ UNCHANGED <<executor, bucket, records, alerts>>

\* a day passes
CacheTick ==
    /\ now < MaxDays
    /\ now' = now + 1
    /\ UNCHANGED <<clients, iterations, pc, req, sim, res, err, report>>
    /\ UNCHANGED orchVars
    /\ UNCHANGED engineVars
    /\ UNCHANGED auxVars

CacheInit ==
    /\ InitCommon
    /\ ThreadsIdle
    /\ AuxIdle

CacheNext == CacheWriteStep \/ CacheReadStep \/ CacheTick

CacheSpec == CacheInit /\ [][CacheNext]_vars

(***************************************************************************)
(* WarmSpec: one simulate call, prompt by prompt as in SimSpec, on an      *)
(* orchestrator whose response cache holds what an earlier call wrote.     *)
(* The call runs at time 0; the earlier one ran the same day, one day or   *)
(* two days before.                                                        *)
(***************************************************************************)
\* the caches an earlier call of task <<SimT, 0>> leaves when its discovery
\* prompts were answered (llm.py:511) and nothing else was
WarmCaches ==
    { [key \in {CacheKeyOf(p, BuildPrompt("discovery", CacheRequest)) : p \in ps} |->
          [ts |-> 0 - d,
           call |-> LLMCall(<<SimT, 0>>, key[1], "discovery", "rec")]] :
      ps \in {ProviderSet}, d \in 0..(CacheTTL + 1) }

WarmInit ==
    /\ now = 0
    /\ cache \in WarmCaches
    /\ traceRaw = <<>>
    /\ traceSummary = <<>>
    /\ taskq = <<>>
    /\ req = [t \in Threads |-> NoRequest]
    /\ sim = [t \in Threads |-> NoSim]
    /\ res = [t \in Threads |-> NoResult]
    /\ err = [t \in Threads |-> None]
    /\ versionStore = <<>>
    /\ pending = {}
    /\ messages = <<>>
    /\ report = [t \in Threads |-> NoReport]
    /\ issued = <<>>
    /\ spawned = [t \in RunThreads |-> FALSE]
    /\ clients \in [ProviderSet -> BOOLEAN]
    /\ iterations = MaxIterations
    /\ pc = [t \in Threads |-> IF t = SimT THEN "idle" ELSE "none"]
    /\ executor = "thread"
    /\ AuxIdle

WarmSpec == WarmInit /\ [][SimNext]_vars

(***************************************************************************)
(* SecretSpec: SecretsManager (llm.py:18-89).  Every method body runs      *)
(* under the manager's lock, so each is one step.                          *)
(***************************************************************************)
MaxUsage == 6
MaxAlerts == 2

\* quota_limit of register_key: 0 is the default (no quota)
Quotas == {0, 5}
\* used_tokens of record_usage
UsedTokens == {0, 1, 3}

\* history: the alerts appended per name since it was last registered
Raised == IF got.op = None THEN [p \in ProviderSet |-> 0] ELSE got.raised

\* a manager that forgets that it has alerted
ShouldAlertAgain(record) ==
    record.quota_limit # 0 /\ record.usage * 10 >= record.quota_limit * 8

\* llm.py:64-65, on the record after the usage was added; quota * 0.8 is
\* exact in floats for the quotas of the model
ShouldAlert(record) ==
    /\ record.quota_limit # 0
    /\ ~record.alerted
    /\ record.usage * 10 >= record.quota_limit * 8

\* register_key (llm.py:26-41)
RegisterKey ==
    /\ Len(alerts) < MaxAlerts
    /\ \E name \in ProviderSet, quota \in Quotas :
        /\ records' = Put(records, name,
                          [quota_limit |-> quota, usage |-> 0, alerted |-> FALSE])
        /\ got' = [op |-> "register", name |-> name, before |-> 0,
                   appended |-> FALSE, raised |-> [Raised EXCEPT ![name] = 0]]
    /\ UNCHANGED alerts
    /\ UNCHANGED <<clients, iterations, now, pc, req, sim, res, err, report>>
    /\ UNCHANGED orchVars
    /\ UNCHANGED engineVars
    /\ UNCHANGED <<executor, bucket>>

\* revoke_key (llm.py:53-55)
RevokeKey ==
    /\ \E name \in ProviderSet :
        /\ records' = [k \in DOMAIN records \ {name} |-> records[k]]
        /\ got' = [op |-> "revoke", name |-> name, before |-> 0,
                   appended |-> FALSE, raised |-> Raised]
    /\ UNCHANGED alerts
    /\ UNCHANGED <<clients, iterations, now, pc, req, sim, res, err, report>>
    /\ UNCHANGED orchVars
    /\ UNCHANGED engineVars
    /\ UNCHANGED <<executor, bucket>>

\* record_usage (llm.py:57-76)
RecordUsage ==
    /\ \E name \in ProviderSet, used \in UsedTokens :
        IF used <= 0 \/ name \notin DOMAIN records
        THEN /\ got' = [op |-> "record", name |-> name, before |-> 0,
                        appended |-> FALSE, raised |-> Raised]
             /\ UNCHANGED <<records, alerts>>
        ELSE LET record == [records[name] EXCEPT !.usage = @ + used]
                 alert == ShouldAlert(record)
             IN  /\ record.usage <= MaxUsage
                 /\ records' = [records EXCEPT
                                  ![name] = [record EXCEPT !.alerted = @ \/ alert]]
                 /\ alerts' = IF alert
                              THEN Append(alerts, [name |-> name,
                                                   usage |-> record.usage,
                                                   quota_limit |-> record.quota_limit])
                              ELSE alerts
                 /\ got' = [op |-> "record", name |-> name,
                            before |-> records[name].usage, appended |-> alert,
                            raised |-> IF alert
                                       THEN [Raised EXCEPT ![name] = @ + 1]
                                       ELSE Raised]
    /\ UNCHANGED <<clients, iterations, now, pc, req, sim, res, err, report>>
    /\ UNCHANGED orchVars
    /\ UNCHANGED engineVars
    /\ UNCHANGED <<executor, bucket>>

\* consume_alerts (llm.py:84-88)
ConsumeAlerts ==
    /\ alerts' = <<>>
    /\ got' = [op |-> "consume_alerts", name |-> None, before |-> 0,
               appended |-> FALSE, raised |-> Raised]
    /\ UNCHANGED records
    /\ UNCHANGED <<clients, iterations, now, pc, req, sim, res, err, report>>
    /\ UNCHANGED orchVars
    /\ UNCHANGED engineVars
    /\ UNCHANGED <<executor, bucket>>

SecretInit ==
    /\ InitCommon
    /\ ThreadsIdle
    /\ AuxIdle

SecretNext == RegisterKey \/ RevokeKey \/ RecordUsage \/ ConsumeAlerts

SecretSpec == SecretInit /\ [][SecretNext]_vars

(***************************************************************************)
(* TraceSpec: LLMTraceStore (llm.py:269-344) under its clock, in days.     *)
(***************************************************************************)
MaxEntries == 2

\* the instants at which the store is used: around both time-to-lives of
\* what was recorded at day 0 and at day 1
Instants ==
    {0, 1, RawTTL, RawTTL + 1, SummaryTTL, SummaryTTL + 1}

TraceTasks == {<<SimT, 1>>, <<SimT, 2>>}
Payloads == {"sov50"}

\* history: every record_raw, and the last record_summary per task
RawLog == IF got.op = None THEN <<>> ELSE got.rawlog
SummaryLog == IF got.op = None THEN <<>> ELSE got.sumlog

NoSummary == [payload |-> None, at |-> 0]

\* record_raw (llm.py:284-296)
TraceRecordRaw ==
    /\ Len(RawLog) < MaxEntries
    /\ \E task \in TraceTasks, content \in {"rec"} :
        LET call == LLMCall(task, "doubao", "discovery", content) IN
        /\ traceRaw' = RecordRaw(traceRaw, call, now)
        /\ traceSummary' = CleanupSummary(traceSummary, now)
        /\ got' = [op |-> "record_raw", task |-> task, at |-> now,
                   raw |-> <<>>, summary |-> NoSummary,
                   rawlog |-> Append(RawLog, [task |-> task, content |-> content,
                                              at |-> now]),
                   sumlog |-> SummaryLog]
    /\ UNCHANGED <<clients, iterations, now, cache, taskq, pc, req, sim, res, err,
                   report>>
    /\ UNCHANGED engineVars
    /\ UNCHANGED <<executor, bucket, records, alerts>>

\* record_summary (llm.py:298-305)
TraceRecordSummary ==
    /\ \E task \in TraceTasks, payload \in Payloads :
        /\ traceSummary' = RecordSummary(traceSummary, task, payload, now)
        /\ traceRaw' = CleanupRaw(traceRaw, now)
        /\ got' = [op |-> "record_summary", task |-> task, at |-> now,
                   raw |-> <<>>, summary |-> NoSummary,
                   rawlog |-> RawLog,
                   sumlog |-> Put(SummaryLog, task, [payload |-> payload, at |-> now])]
    /\ UNCHANGED <<clients, iterations, now, cache, taskq, pc, req, sim, res, err,
                   report>>
    /\ UNCHANGED engineVars
    /\ UNCHANGED <<executor, bucket, records, alerts>>

\* get_trace (llm.py:307-329)
TraceGet ==
    /\ \E task \in TraceTasks :
        LET raw2 == CleanupRaw(traceRaw, now)
            sm2 == CleanupSummary(traceSummary, now)
        IN  /\ traceRaw' = raw2
            /\ traceSummary' = sm2
            /\ got' = [op |-> "get_trace", task |-> task, at |-> now,
                       raw |-> IF task \in DOMAIN raw2 THEN raw2[task] ELSE <<>>,
                       summary |-> IF task \in DOMAIN sm2 THEN sm2[task] ELSE NoSummary,
                       rawlog |-> RawLog,
                       sumlog |-> SummaryLog]
    /\ UNCHANGED <<clients, iterations, now, cache, taskq, pc, req, sim, res, err,
                   report>>
    /\ UNCHANGED engineVars
    /\ UNCHANGED <<executor, bucket, records, alerts>>

\* time passes, up to a later instant
TraceTick ==
    /\ \E t \in Instants : t > now /\ now' = t
    /\ UNCHANGED <<clients, iterations, pc, req, sim, res, err, report>>
    /\ UNCHANGED orchVars
    /\ UNCHANGED engineVars
    /\ UNCHANGED auxVars

TraceInit ==
    /\ InitCommon
    /\ ThreadsIdle
    /\ AuxIdle

TraceNext == TraceRecordRaw \/ TraceRecordSummary \/ TraceGet \/ TraceTick

TraceSpec == TraceInit /\ [][TraceNext]_vars

(***************************************************************************)
(* OfflineSpec: simulate with no client configured (llm.py:419-472),       *)
(* called up to MaxCalls times on one orchestrator.  Here an observation   *)
(* also carries its competitor and tag.  The orchestrator is either the    *)
(* one the engine builds (engine.py:72-77) or a bare LLMOrchestrator().    *)
(***************************************************************************)
MaxCalls == 2

Industries == {"SaaS", "Finance"}
OfflineDescriptions == {"flagship geo engine", "Flagship GEO Engine"}

\* _MENTION_RE.findall (llm.py:374) on the description, duplicates dropped
Mentions(desc) ==
    IF desc = "Flagship GEO Engine" THEN <<"Flagship", "GEO", "Engine">> ELSE <<>>

\* industry_competitors: engine.py:49-55, or {} (llm.py:392)
IndustryCompetitors(engineBuilt, industry) ==
    IF ~engineBuilt THEN <<>>
    ELSE IF industry = "SaaS" THEN <<"OptiStack", "DataPulse", "NeuronSuite">>
    ELSE <<"FinPulse", "LedgerX", "CrestPay">>

\* negative_tags: engine.py:43-48, or the default (llm.py:395)
NegativeTags(engineBuilt) ==
    IF engineBuilt THEN <<"value", "complex ui", "unstable", "slow support">>
    ELSE <<"smooth">>

\* _inline_competitors (llm.py:722-729)
InlineCompetitors(engineBuilt, desc, industry) ==
    IF Mentions(desc) # <<>> THEN Mentions(desc)
    ELSE IndustryCompetitors(engineBuilt, industry)

\* llm.py:446-464: the i-th observation of the offline run
OfflineObservationFull(engineBuilt, i, n, desc, industry) ==
    LET o == OfflineObservation(i, n, Req("Mingyu", desc, "ops@mingyu.com"))
        competitors == InlineCompetitors(engineBuilt, desc, industry)
        tags == NegativeTags(engineBuilt)
    IN  o @@ [competitor |-> IF ~o.recommended /\ competitors # <<>>
                             THEN competitors[((o.iter + Idx(o.platform) - 1)
                                                 % Len(competitors)) + 1]
                             ELSE None,
              tag |-> tags[(o.iter % Len(tags)) + 1]]

\* an offline run that stops after the first virtual provider
SimulateOfflineOnePlatform(engineBuilt, task, desc, industry, n) ==
    [task |-> task,
     observations |-> [i \in 1..n |->
                          OfflineObservationFull(engineBuilt, i, n, desc, industry)],
     coverage |-> [p \in ProviderSet |-> FALSE],
     cache_note |-> None,
     degraded |-> FALSE]

\* _simulate_offline (llm.py:424-472)
SimulateOffline(engineBuilt, task, desc, industry, n) ==
    [task |-> task,
     observations |-> [i \in 1..(Len(Providers) * n) |->
                          OfflineObservationFull(engineBuilt, i, n, desc, industry)],
     coverage |-> [p \in ProviderSet |-> FALSE],
     cache_note |-> None,
     degraded |-> FALSE]

\* simulate(request, iterations=n) on the orchestrator without clients; the
\* task id is a fresh uuid
OfflineCall ==
    /\ Len(got.calls) < MaxCalls
    /\ \E desc \in OfflineDescriptions, industry \in Industries,
          n \in 1..MaxIterations :
        LET task == <<SimT, Len(got.calls) + 1>> IN
        got' = [got EXCEPT !.calls =
                   Append(@, [desc |-> desc, industry |-> industry, n |-> n,
                              res |-> SimulateOffline(got.engineBuilt, task, desc,
                                                      industry, n)])]
    /\ UNCHANGED <<clients, iterations, now, pc, req, sim, res, err, report>>
    /\ UNCHANGED orchVars
    /\ UNCHANGED engineVars
    /\ UNCHANGED <<executor, bucket, records, alerts>>

OfflineInit ==
    /\ InitCommon
    /\ ThreadsIdle
    /\ bucket = NoBucket
    /\ records = <<>>
    /\ alerts = <<>>
    /\ got \in {[op |-> "simulate", engineBuilt |-> b, calls |-> <<>>] : b \in BOOLEAN}

OfflineNext == OfflineCall

OfflineSpec == OfflineInit /\ [][OfflineNext]_vars

(***************************************************************************)
(* LiveSpec: one simulate call, prompt by prompt as in SimSpec, with a log *)
(* of what each prompt did: the provider and iteration it belonged to, the *)
(* outcome of _invoke_client, and whether _read_cache served it.  The      *)
(* cache is empty or holds what an earlier call wrote within the           *)
(* time-to-live.                                                           *)
(***************************************************************************)
Log == IF got.op = None THEN <<>> ELSE got.log

\* the outcomes of _invoke_client in this specification: "nochoices" is left
\* to SimSpec, the loop treats it as it treats "exhausted"
LiveOutcomes == Outcomes \ {"nochoices"}

\* llm.py:496-522, one prompt, and its line in the log
LiveCall ==
    /\ pc[SimT] = "call"
    /\ \E o \in LiveOutcomes :
        LET s == sim[SimT]
            key == CacheKeyOf(s.plat, BuildPrompt(s.ptype, req[SimT]))
            w == PromptStep(World(SimT), o, req[SimT], iterations, now)
        IN  /\ sim' = [sim EXCEPT ![SimT] = w.s]
            /\ cache' = w.cache
            /\ traceRaw' = w.trace
            /\ err' = [err EXCEPT ![SimT] = w.err]
            /\ pc' = [pc EXCEPT ![SimT] = IF w.err # None THEN "raised"
                                          ELSE IF w.s.fin THEN "simret" ELSE "call"]
            /\ res' = [res EXCEPT ![SimT] = IF w.err = None /\ w.s.fin
                                           THEN SimResult(w.s) ELSE res[SimT]]
            /\ got' = [op |-> "simulate",
                       log |-> Append(Log,
                                 [iter |-> s.iter, plat |-> s.plat, ptype |-> s.ptype,
                                  outcome |-> o,
                                  strikes |-> s.strikes[s.plat],
                                  served |-> /\ o \in {"exhausted", "nochoices"}
                                             /\ key \in DOMAIN cache
                                             /\ now - cache[key].ts <= CacheTTL])]
    /\ UNCHANGED <<clients, iterations, now, traceSummary, taskq, req, report>>
    /\ UNCHANGED engineVars
    /\ UNCHANGED <<executor, bucket, records, alerts>>

LiveInit ==
    /\ now = 0
    /\ cache \in {<<>>} \cup {c \in WarmCaches : \A k \in DOMAIN c : c[k].ts = 0 - CacheTTL}
    /\ traceRaw = <<>>
    /\ traceSummary = <<>>
    /\ taskq = <<>>
    /\ req = [t \in Threads |-> NoRequest]
    /\ sim = [t \in Threads |-> NoSim]
    /\ res = [t \in Threads |-> NoResult]
    /\ err = [t \in Threads |-> None]
    /\ versionStore = <<>>
    /\ pending = {}
    /\ messages = <<>>
    /\ report = [t \in Threads |-> NoReport]
    /\ issued = <<>>
    /\ spawned = [t \in RunThreads |-> FALSE]
    /\ clients \in [ProviderSet -> BOOLEAN]
    /\ iterations = MaxIterations
    /\ pc = [t \in Threads |-> IF t = SimT THEN "idle" ELSE "none"]
    /\ executor = "thread"
    /\ AuxIdle

LiveNext == SimStart \/ LiveCall

LiveSpec == LiveInit /\ [][LiveNext]_vars

(***************************************************************************)
(* InvokeSpec: one prompt of the live loop at the level of the attempts of *)
(* _invoke_client (llm.py:554-619) and the steps of the client's _post     *)
(* (llm.py:155-167): the rate limiter, the credential, the network.  The   *)
(* clock of this specification is in seconds and only the token bucket     *)
(* reads it (rate is tokens per second: TokenBucket(capacity=1,            *)
(* refill_rate_per_min=60)); the response cache and the trace store are    *)
(* still at day 0.  Other threads of the process use the same client: they *)
(* take tokens from its bucket, and the credential may be revoked.         *)
(***************************************************************************)
InvokeBucket == [capacity |-> 1, rate |-> 1]

FinishReasons == {"stop", "length", "tool_calls"}

\* what the provider sends back: a transport or HTTP error
\* (requests.RequestException), a body without choices, or one choice
Responses ==
    {[kind |-> k, content |-> None, finish |-> None] : k \in {"error", "empty"}}
    \cup {[kind |-> "choice", content |-> c, finish |-> f] :
             c \in {"rec", "sensitive"}, f \in FinishReasons}

\* a retry loop that catches every exception
RetriedAny(kind) == TRUE

\* llm.py:572: the exceptions the retry loop catches
Retried(kind) == kind \in {"RequestException", "RateLimitError", "LLMClientError"}

\* a client that accepts every finish reason
AbnormalFinishNever(plat, finish) == FALSE

\* llm.py:231-234: DeepSeekClient refuses the choice; DoubaoClient
\* (llm.py:190-198) does not look at it
AbnormalFinish(plat, finish) == plat = "deepseek" /\ finish \notin {"stop", "length"}

\* llm.py:575: time.sleep(2 ** attempt)
Backoff(attempt) == IF attempt = 1 THEN 2 ELSE 4

\* the locals of the loop when the prompt is reached: at the start of the
\* call, or after the first two prompts of the call failed
InvokeLocals(cl, c, r, n) ==
    LET w0 == [s |-> SimLocals(<<SimT, 1>>, cl, c), cache |-> c, trace |-> <<>>,
               err |-> None]
    IN  {w0, PromptStep(PromptStep(w0, "exhausted", r, n, 0), "exhausted", r, n, 0)}

InvokeIdle ==
    /\ UNCHANGED <<clients, iterations, traceSummary, taskq, req, res, report>>
    /\ UNCHANGED engineVars
    /\ UNCHANGED executor

\* _invoke_client is left with outcome o (llm.py:577-619), and the loop
\* deals with it (llm.py:508-522)
InvokeFinish(o, entry) ==
    LET w == PromptStep(World(SimT), o, req[SimT], iterations, 0) IN
    /\ sim' = [sim EXCEPT ![SimT] = w.s]
    /\ cache' = w.cache
    /\ traceRaw' = w.trace
    /\ err' = [err EXCEPT ![SimT] = w.err]
    /\ pc' = [pc EXCEPT ![SimT] = IF w.err # None THEN "raised" ELSE "returned"]
    /\ got' = [got EXCEPT !.log = Append(@, entry), !.outcome = o]
    /\ UNCHANGED now

\* a retry loop that gives up at the first failure
InvokeRaisedOnce(kind, entry) ==
    IF ~Retried(kind)
    THEN InvokeFinish("nokey", entry)
    ELSE InvokeFinish("exhausted", entry)

\* llm.py:572-577: the attempt raised an exception of this kind
InvokeRaised(kind, entry) ==
    IF ~Retried(kind)
    THEN InvokeFinish("nokey", entry)
    ELSE IF got.attempt < Attempts
    THEN /\ now' = now + Backoff(got.attempt)
         /\ got' = [got EXCEPT !.attempt = @ + 1, !.log = Append(@, entry)]
         /\ pc' = [pc EXCEPT ![SimT] = "attempt"]
         /\ UNCHANGED <<sim, cache, traceRaw, err>>
    ELSE InvokeFinish("exhausted", entry)

LogEntry(result, response) ==
    [attempt |-> got.attempt, absent |-> got.absent, result |-> result,
     plat |-> sim[SimT].plat, finish |-> response.finish]

NoResponse == [kind |-> None, content |-> None, finish |-> None]

\* llm.py:156, 109-114: the attempt begins: token_bucket.consume()
InvokeConsume ==
    /\ pc[SimT] = "attempt"
    /\ LET b == Refill(bucket, now)
           absent == sim[SimT].plat \notin DOMAIN records
       IN  IF Insufficient(1, b)
           THEN /\ bucket' = b
                /\ InvokeRaised("RateLimitError",
                                [LogEntry("RateLimitError", NoResponse)
                                   EXCEPT !.absent = absent])
           ELSE /\ bucket' = [b EXCEPT !.tokens = b.tokens - 1]
                /\ got' = [got EXCEPT !.absent = absent]
                /\ pc' = [pc EXCEPT ![SimT] = "headers"]
                /\ UNCHANGED <<now, sim, cache, traceRaw, err>>
    /\ UNCHANGED <<records, alerts>>
    /\ InvokeIdle

\* llm.py:159, 148-149, 47-51: the headers: secrets.get_key
InvokeHeaders ==
    /\ pc[SimT] = "headers"
    /\ IF sim[SimT].plat \notin DOMAIN records
       THEN InvokeRaised("KeyError", LogEntry("KeyError", NoResponse))
       ELSE /\ pc' = [pc EXCEPT ![SimT] = "post"]
            /\ UNCHANGED <<now, sim, cache, traceRaw, err, got>>
    /\ UNCHANGED <<bucket, records, alerts>>
    /\ InvokeIdle

\* llm.py:157-167: the request and its response; record_usage of one token
\* (llm.py:57-76); then the client's check of the finish reason, and after
\* the loop the checks of _invoke_client (llm.py:579-587)
InvokePost ==
    /\ pc[SimT] = "post"
    /\ \E response \in Responses :
        LET name == sim[SimT].plat
            record == IF name \in DOMAIN records
                      THEN [records[name] EXCEPT !.usage = @ + 1]
                      ELSE [quota_limit |-> 0, usage |-> 0, alerted |-> FALSE]
        IN  IF response.kind = "error"
            THEN /\ InvokeRaised("RequestException",
                                 LogEntry("RequestException", response))
                 /\ UNCHANGED <<records, alerts>>
            ELSE /\ records' = IF name \in DOMAIN records
                               THEN [records EXCEPT ![name] =
                                       [record EXCEPT !.alerted = @ \/ ShouldAlert(record)]]
                               ELSE records
                 /\ alerts' = IF name \in DOMAIN records /\ ShouldAlert(record)
                              THEN Append(alerts, [name |-> name, usage |-> record.usage,
                                                   quota_limit |-> record.quota_limit])
                              ELSE alerts
                 /\ IF response.kind = "choice" /\ AbnormalFinish(name, response.finish)
                    THEN InvokeRaised("LLMClientError",
                                      LogEntry("LLMClientError", response))
                    ELSE InvokeFinish(IF response.kind = "empty" THEN "nochoices"
                                      ELSE response.content,
                                      LogEntry("ok", response))
    /\ UNCHANGED bucket
    /\ InvokeIdle

InvokeRunning == pc[SimT] \in {"attempt", "headers", "post"}

\* another thread takes a token from the client's bucket
OtherConsume ==
    /\ InvokeRunning
    /\ LET b == Refill(bucket, now) IN
        /\ ~Insufficient(1, b)
        /\ bucket' = [b EXCEPT !.tokens = b.tokens - 1]
    /\ UNCHANGED <<now, sim, cache, traceRaw, err, pc, got, records, alerts>>
    /\ InvokeIdle

\* another thread revokes the credential (llm.py:53-55)
OtherRevoke ==
    /\ InvokeRunning
    /\ sim[SimT].plat \in DOMAIN records
    /\ records' = [k \in DOMAIN records \ {sim[SimT].plat} |-> records[k]]
    /\ UNCHANGED <<now, sim, cache, traceRaw, err, pc, got, bucket, alerts>>
    /\ InvokeIdle

InvokeInit ==
    /\ now = 0
    /\ cache \in {<<>>} \cup {c \in WarmCaches : \A k \in DOMAIN c : c[k].ts = 0 - CacheTTL}
    /\ clients \in [ProviderSet -> BOOLEAN] \ {[p \in ProviderSet |-> FALSE]}
    /\ iterations = MaxIterations
    /\ req = [t \in Threads |-> IF t = SimT THEN CacheRequest ELSE NoRequest]
    /\ \E w \in InvokeLocals(clients, cache, CacheRequest, iterations) :
          /\ ~w.s.fin
          /\ sim = [t \in Threads |-> IF t = SimT THEN w.s ELSE NoSim]
          /\ got = [op |-> "invoke", attempt |-> 1, absent |-> FALSE, log |-> <<>>,
                    outcome |-> None, pre |-> w.s, cache0 |-> cache]
    /\ traceRaw = <<>>
    /\ traceSummary = <<>>
    /\ taskq = << <<SimT, 1>> >>
    /\ res = [t \in Threads |-> NoResult]
    /\ err = [t \in Threads |-> None]
    /\ versionStore = <<>>
    /\ pending = {}
    /\ messages = <<>>
    /\ report = [t \in Threads |-> NoReport]
    /\ issued = <<>>
    /\ spawned = [t \in RunThreads |-> FALSE]
    /\ pc = [t \in Threads |-> IF t = SimT THEN "attempt" ELSE "none"]
    /\ executor = "thread"
    /\ bucket = NewBucket(InvokeBucket, 0)
    /\ records = [p \in ProviderSet |->
                    [quota_limit |-> 0, usage |-> 0, alerted |-> FALSE]]
    /\ alerts = <<>>

InvokeNext ==
    \/ InvokeConsume
    \/ InvokeHeaders
    \/ InvokePost
    \/ OtherConsume
    \/ OtherRevoke

InvokeSpec == InvokeInit /\ [][InvokeNext]_vars

(***************************************************************************)
(* LockSpec: the places at which engine.run on the foreground thread and   *)
(* the catch-up job on its own thread (engine.py:425-427) touch the        *)
(* objects of the one engine and the one orchestrator they share, and the  *)
(* locks they hold there.  The data is that of the other specifications;   *)
(* here a thread is a position on its path.  One provider, one prompt: the *)
(* run's prompt fails and is served from the cache, the job's is answered. *)
(***************************************************************************)
Step(op, obj) == [op |-> op, obj |-> obj]

\* llm.py:109-114: TokenBucket.consume
ConsumePath ==
    <<Step("acquire", "bucket"), Step("write", "bucket"), Step("release", "bucket")>>

\* llm.py:47-51: SecretsManager.get_key
GetKeyPath ==
    <<Step("acquire", "secrets"), Step("read", "secrets"), Step("release", "secrets")>>

\* llm.py:57-76: SecretsManager.record_usage
RecordUsagePath ==
    <<Step("acquire", "secrets"), Step("write", "secrets"), Step("release", "secrets")>>

\* llm.py:155-162: BaseChatClient._post up to the response
PostPath == ConsumePath \o GetKeyPath \o <<Step("network", "provider")>>

\* engine.py:419-423: _next_report_version_for_key
VersionPath ==
    <<Step("acquire", "version"), Step("write", "versions"), Step("release", "version")>>

\* engine.py:352-355, 365-366: the pending-retry set
PendingPath ==
    <<Step("acquire", "version"), Step("write", "pending"), Step("release", "version")>>

\* engine.run (engine.py:82-150) when the prompt fails and the cache serves
\* it: llm.py:476, _post, _read_cache (llm.py:677-685), record_summary
\* (llm.py:299-305), the version, the pending set, the executor
RunPath ==
    <<Step("write", "taskq")>> \o PostPath
    \o <<Step("write", "cache"), Step("write", "trace")>>
    \o VersionPath \o PendingPath \o <<Step("spawn", "job")>>

\* the job (engine.py:357-366, 370-406) when the prompt is answered:
\* llm.py:476, _post with record_usage, record_raw (llm.py:285-297),
\* _write_cache (llm.py:674-675), record_summary, the version, the pending set
JobPath ==
    <<Step("write", "taskq")>> \o PostPath \o RecordUsagePath
    \o <<Step("write", "trace"), Step("write", "cache"), Step("write", "trace")>>
    \o VersionPath \o PendingPath

Path(t) == IF IsRun(t) THEN RunPath ELSE IF IsJob(t) THEN JobPath ELSE <<>>

Locks == {"bucket", "secrets", "version"}

OnPath(t) == pc[t] \in DOMAIN Path(t)

At(t) == Path(t)[pc[t]]

Holds(t) == {l \in Locks : t \in got.owner[l]}

LockIdle ==
    /\ UNCHANGED <<clients, iterations, now, req, sim, res, err, report>>
    /\ UNCHANGED orchVars
    /\ UNCHANGED engineVars
    /\ UNCHANGED <<executor, bucket, records, alerts>>

\* `with self._lock:` is entered when no thread is inside
LockAcquire(t) ==
    /\ OnPath(t)
    /\ At(t).op = "acquire"
    /\ got.owner[At(t).obj] = {}
    /\ got' = [got EXCEPT !.owner[At(t).obj] = {t}]
    /\ pc' = [pc EXCEPT ![t] = @ + 1]
    /\ LockIdle

LockRelease(t) ==
    /\ OnPath(t)
    /\ At(t).op = "release"
    /\ got' = [got EXCEPT !.owner[At(t).obj] = @ \ {t}]
    /\ pc' = [pc EXCEPT ![t] = @ + 1]
    /\ LockIdle

\* the thread has read or written the object, or has its response
LockTouch(t) ==
    /\ OnPath(t)
    /\ At(t).op \in {"read", "write", "network"}
    /\ pc' = [pc EXCEPT ![t] = @ + 1]
    /\ UNCHANGED got
    /\ LockIdle

\* engine.py:368, 425-427: the run starts its job's thread and returns; the
\* next engine.run starts on the foreground thread
LockSpawn(t) ==
    /\ OnPath(t)
    /\ At(t).op = "spawn"
    /\ pc' = [u \in Threads |->
                IF u = t THEN pc[t] + 1
                ELSE IF u = JobOf(t) \/ (IsRun(u) /\ u[2] = t[2] + 1) THEN 1
                ELSE pc[u]]
    /\ UNCHANGED got
    /\ LockIdle

LockInit ==
    /\ InitCommon
    /\ clients = [p \in ProviderSet |-> p = "doubao"]
    /\ iterations = 1
    /\ pc = [t \in Threads |-> IF t = RunT(1) THEN 1 ELSE 0]
    /\ executor = "thread"
    /\ bucket = NoBucket
    /\ records = <<>>
    /\ alerts = <<>>
    /\ got = [op |-> "locks", owner |-> [l \in Locks |-> {}]]

LockNext ==
    \E t \in Threads :
        \/ LockAcquire(t)
        \/ LockRelease(t)
        \/ LockTouch(t)
        \/ LockSpawn(t)

LockSpec == LockInit /\ [][LockNext]_vars

(***************************************************************************)
(* ReportSpec: the runs and jobs of Spec by an engine of five iterations,  *)
(* the fewest with a snapshot (engine.py:295, 171-178).                    *)
(***************************************************************************)
SnapshotEvery == 5

ReportInit ==
    /\ InitCommon
    /\ clients \in [ProviderSet -> BOOLEAN]
    /\ iterations = SnapshotEvery
    /\ pc = [t \in Threads |-> IF IsRun(t) THEN "idle" ELSE "none"]
    /\ executor = "thread"
    /\ AuxIdle

ReportSpec == ReportInit /\ [][Next]_vars

(***************************************************************************)
(* RegistrySpec: the credentials of the secret registry (llm.py:20-55)     *)
(* under register_key, revoke_key and get_key, each under the registry's   *)
(* lock and so one at a time.                                              *)
(***************************************************************************)
MaxOps == 3           \* register_key and revoke_key calls in one behaviour

Credentials == {"key-1", "key-2"}

\* a registry that forgets every credential on a revoke
RevokedAll(recs, name) == <<>>

\* llm.py:53-55: self._records.pop(name, None)
Revoked(recs, name) == [k \in DOMAIN recs \ {name} |-> recs[k]]

\* llm.py:26-41: self._records[name] = {...}
Registered(recs, name, key) ==
    [k \in DOMAIN recs \cup {name} |->
        IF k = name
        THEN [api_key |-> key, quota_limit |-> 0, usage |-> 0, alerted |-> FALSE]
        ELSE recs[k]]

\* llm.py:47-51: get_key
GetKey(recs, name) == IF name \notin DOMAIN recs THEN "KeyError" ELSE recs[name].api_key

RegistryIdle ==
    /\ UNCHANGED <<clients, iterations, now, pc, req, sim, res, err, report>>
    /\ UNCHANGED orchVars
    /\ UNCHANGED engineVars
    /\ UNCHANGED <<executor, bucket, alerts>>

RegistryRegister ==
    /\ Len(got.ops) < MaxOps
    /\ \E name \in ProviderSet, key \in Credentials :
        /\ records' = Registered(records, name, key)
        /\ got' = [op |-> "register_key", name |-> name, result |-> key,
                   before |-> records,
                   ops |-> Append(got.ops, [op |-> "register_key", name |-> name,
                                            key |-> key])]
    /\ RegistryIdle

RegistryRevoke ==
    /\ Len(got.ops) < MaxOps
    /\ \E name \in ProviderSet :
        /\ records' = Revoked(records, name)
        /\ got' = [op |-> "revoke_key", name |-> name, result |-> None,
                   before |-> records,
                   ops |-> Append(got.ops, [op |-> "revoke_key", name |-> name,
                                            key |-> None])]
    /\ RegistryIdle

RegistryLookup ==
    /\ \E name \in ProviderSet :
        got' = [got EXCEPT !.op = "get_key", !.name = name,
                           !.result = GetKey(records, name), !.before = records]
    /\ UNCHANGED records
    /\ RegistryIdle

RegistryInit ==
    /\ InitCommon
    /\ ThreadsIdle
    /\ bucket = NoBucket
    /\ records = <<>>
    /\ alerts = <<>>
    /\ got = [op |-> None, name |-> None, result |-> None, before |-> <<>>,
              ops |-> <<>>]

RegistryNext ==
    \/ RegistryRegister
    \/ RegistryRevoke
    \/ RegistryLookup

RegistrySpec == RegistryInit /\ [][RegistryNext]_vars

(***************************************************************************)
(* RerunSpec: simulate called again and again on one orchestrator, by the  *)
(* foreground thread and by the thread of a catch-up job (engine.py:378,   *)
(* 425-427), prompt by prompt and interleaved.  One provider, two          *)
(* outcomes per prompt; every call has its own task id (llm.py:475).       *)
(***************************************************************************)
MaxStarts == 2        \* simulate calls in one behaviour

Callers == {SimT, JobT(1)}

RerunOutcomes == {"rec", "exhausted"}

RerunIdle ==
    /\ UNCHANGED <<clients, iterations, now, traceSummary, req, report>>
    /\ UNCHANGED engineVars
    /\ UNCHANGED <<executor, bucket, records, alerts>>

\* llm.py:474-483: simulate is entered
RerunStart(t) ==
    /\ pc[t] \in {"idle", "simret"}
    /\ Len(taskq) < MaxStarts
    /\ LET task == <<t, Len(taskq) + 1>> IN
        /\ taskq' = Append(taskq, task)
        /\ sim' = [sim EXCEPT ![t] = SimLocals(task, clients, cache)]
    /\ pc' = [pc EXCEPT ![t] = "call"]
    /\ UNCHANGED <<cache, traceRaw, res, err, got>>
    /\ RerunIdle

\* llm.py:496-535: one prompt of the caller's loop
RerunCall(t) ==
    /\ pc[t] = "call"
    /\ \E o \in RerunOutcomes :
        LET s == sim[t]
            w == PromptStep(World(t), o, req[t], iterations, now)
        IN  /\ sim' = [sim EXCEPT ![t] = w.s]
            /\ cache' = w.cache
            /\ traceRaw' = w.trace
            /\ pc' = [pc EXCEPT ![t] = IF w.s.fin THEN "simret" ELSE "call"]
            /\ res' = [res EXCEPT ![t] = IF w.s.fin THEN SimResult(w.s) ELSE res[t]]
            /\ got' = [op |-> "simulate",
                       log |-> Append(Log, [task |-> s.task, plat |-> s.plat,
                                            outcome |-> o])]
    /\ UNCHANGED <<taskq, err>>
    /\ RerunIdle

RerunInit ==
    /\ now = 0
    /\ cache = <<>>
    /\ traceRaw = <<>>
    /\ traceSummary = <<>>
    /\ taskq = <<>>
    /\ sim = [t \in Threads |-> NoSim]
    /\ res = [t \in Threads |-> NoResult]
    /\ err = [t \in Threads |-> None]
    /\ versionStore = <<>>
    /\ pending = {}
    /\ messages = <<>>
    /\ report = [t \in Threads |-> NoReport]
    /\ issued = <<>>
    /\ spawned = [t \in RunThreads |-> FALSE]
    /\ clients = [p \in ProviderSet |-> p = "doubao"]
    /\ iterations = MaxIterations
    /\ req = [t \in Threads |-> IF t \in Callers THEN CacheRequest ELSE NoRequest]
    /\ pc = [t \in Threads |-> IF t \in Callers THEN "idle" ELSE "none"]
    /\ executor = "thread"
    /\ AuxIdle

RerunNext == \E t \in Callers : RerunStart(t) \/ RerunCall(t)

RerunSpec == RerunInit /\ [][RerunNext]_vars

(***************************************************************************)
(* TagSpec: the sentiment and the tag of a live observation                *)
(* (_calls_to_observation, llm.py:636-642; _tag_from_sentiment,            *)
(* llm.py:712-717) for the calls of one provider in one iteration.         *)
(* Sentiments are in hundredths; the lexicon is the orchestrator's         *)
(* negative_tags, the engine's or the default.                             *)
(***************************************************************************)
MaxObserved == 2      \* observations in one behaviour

Sentiments == {-100, -21, -20, -1, 0, 50}

\* a call of the iteration, or none
TagCalls ==
    {[present |-> FALSE, sentiment |-> 0]}
    \cup {[present |-> TRUE, sentiment |-> x] : x \in Sentiments}

\* llm.py:636-640
ObservedSentiment(discovery, evaluation) ==
    IF evaluation.present THEN evaluation.sentiment
    ELSE IF discovery.present THEN discovery.sentiment
    ELSE 0

\* llm.py:712-717; negative_tags is never empty (llm.py:395)
TagFromSentiment(tags, sentiment) ==
    IF sentiment < -20 THEN tags[1]
    ELSE IF sentiment < 0 THEN tags[1]
    ELSE "smooth"

\* llm.py:523-535, 621-653: an observation is made of the calls
ObserveTag ==
    /\ Len(got.seen) < MaxObserved
    /\ \E d \in TagCalls, e \in TagCalls :
        /\ d.present \/ e.present
        /\ LET x == ObservedSentiment(d, e) IN
            got' = [got EXCEPT !.seen = Append(@,
                       [discovery |-> d, evaluation |-> e, sentiment |-> x,
                        tag |-> TagFromSentiment(got.tags, x)])]
    /\ UNCHANGED <<clients, iterations, now, pc, req, sim, res, err, report>>
    /\ UNCHANGED orchVars
    /\ UNCHANGED engineVars
    /\ UNCHANGED <<executor, bucket, records, alerts>>

TagInit ==
    /\ InitCommon
    /\ ThreadsIdle
    /\ bucket = NoBucket
    /\ records = <<>>
    /\ alerts = <<>>
    /\ got \in {[op |-> "observe", tags |-> NegativeTags(b), seen |-> <<>>] :
                  b \in BOOLEAN}

TagNext == ObserveTag

TagSpec == TagInit /\ [][TagNext]_vars

(***************************************************************************)
(* SharedSpec: one LLMTraceStore (llm.py:269-345) used by a run and by a   *)
(* catch-up job, which share the engine's orchestrator (engine.py:195,     *)
(* 378, 425-427) and take no lock.  Each thread records under               *)
(* its own task id.  _raw maps a task id to a Python list: an append goes  *)
(* to the list the dictionary holds, _cleanup takes the items of the       *)
(* dictionary first and then, entry by entry, filters the list it took and *)
(* binds the task id to the new list.  A thread is switched between these  *)
(* steps; within one step the model lets no other thread run, which is     *)
(* fewer interleavings than the interpreter allows.  got.order is the      *)
(* insertion order of _raw, got.log what record_raw appended, got.seen the *)
(* last result of get_trace.  Time is in days.                             *)
(***************************************************************************)
OwnTask(t) == <<t, 1>>

\* a key taken out of a dictionary, and out of its insertion order
Without(f, k) == [x \in DOMAIN f \ {k} |-> f[x]]
Dropped(order, k) == SelectSeq(order, LAMBDA x : x # k)

\* dict.__setitem__ and dict.setdefault keep the place of a key that is there
Placed(d, order, k) == IF k \in DOMAIN d THEN order ELSE Append(order, k)

SharedIdle ==
    /\ UNCHANGED <<clients, iterations, cache, taskq, req, res, err, report>>
    /\ UNCHANGED engineVars
    /\ UNCHANGED <<executor, bucket, records, alerts>>

\* record_raw up to the append (llm.py:285-296); the answer of the k-th
\* recorded call is k
SharedAppend(t) ==
    /\ pc[t] = "idle"
    /\ Len(Log) < MaxEntries
    /\ LET task == OwnTask(t)
           e == [platform |-> "doubao", ptype |-> "discovery",
                 content |-> Len(Log) + 1, at |-> now]
           old == IF task \in DOMAIN traceRaw THEN traceRaw[task] ELSE <<>>
       IN  /\ traceRaw' = Put(traceRaw, task, Append(old, e))
           /\ got' = [got EXCEPT !.order = Placed(traceRaw, got.order, task),
                                 !.log = Append(got.log, [task |-> task,
                                                          content |-> e.content,
                                                          at |-> now])]
           /\ sim' = [sim EXCEPT ![t] = [op |-> "record_raw", task |-> task]]
    /\ pc' = [pc EXCEPT ![t] = "cleanup"]
    /\ UNCHANGED <<now, traceSummary>>
    /\ SharedIdle

\* record_summary up to the assignment (llm.py:299-304); the engine records
\* one summary per task id (engine.py:226, 237, 395)
SharedSummary(t) ==
    /\ pc[t] = "idle"
    /\ OwnTask(t) \notin DOMAIN traceSummary
    /\ \E payload \in Payloads :
         traceSummary' = Put(traceSummary, OwnTask(t),
                             [payload |-> payload, at |-> now])
    /\ sim' = [sim EXCEPT ![t] = [op |-> "record_summary", task |-> OwnTask(t)]]
    /\ pc' = [pc EXCEPT ![t] = "cleanup"]
    /\ UNCHANGED <<now, traceRaw, got>>
    /\ SharedIdle

\* get_trace is called (llm.py:307), by the thread of the run; since is how
\* many calls were recorded
SharedGet(t) ==
    /\ pc[t] = "idle"
    /\ t = SimT
    /\ \E u \in Callers :
         sim' = [sim EXCEPT ![t] = [op |-> "get_trace", task |-> OwnTask(u),
                                    since |-> Len(Log)]]
    /\ pc' = [pc EXCEPT ![t] = "cleanup"]
    /\ UNCHANGED <<now, traceRaw, traceSummary, got>>
    /\ SharedIdle

\* _cleanup reads the clock and takes list(self._raw.items()) (llm.py:332-333):
\* each item refers to the list the dictionary holds now
SharedItems(t) ==
    /\ pc[t] = "cleanup"
    /\ LET items == [i \in 1..Len(got.order) |->
                        [task |-> got.order[i], held |-> TRUE, list |-> <<>>]]
       IN  /\ sim' = [sim EXCEPT ![t] =
                        [op |-> sim[t].op, task |-> sim[t].task,
                         since |-> IF sim[t].op = "get_trace" THEN sim[t].since ELSE 0,
                         at |-> now, items |-> items, filtered |-> <<>>]]
           /\ pc' = [pc EXCEPT ![t] = IF items = <<>> THEN "summaries" ELSE "filter"]
    /\ UNCHANGED <<now, traceRaw, traceSummary, got>>
    /\ SharedIdle

\* the comprehension of llm.py:334-338 over the list of the item: the list
\* the dictionary still holds, with what was appended to it since, or the
\* list as it was when the dictionary let go of it
SharedFilter(t) ==
    /\ pc[t] = "filter"
    /\ LET item == Head(sim[t].items)
           entries == IF item.held THEN traceRaw[item.task] ELSE item.list
       IN  sim' = [sim EXCEPT ![t].filtered =
                      SelectSeq(entries, LAMBDA e : sim[t].at - e.at <= RawTTL)]
    /\ pc' = [pc EXCEPT ![t] = "store"]
    /\ UNCHANGED <<now, traceRaw, traceSummary, got>>
    /\ SharedIdle

\* the items of the other threads that refer to the list of task, once the
\* dictionary holds another list or none for it
LetGo(items, task, list) ==
    [i \in DOMAIN items |->
        IF items[i].task = task /\ items[i].held
        THEN [task |-> task, held |-> FALSE, list |-> list] ELSE items[i]]

\* llm.py:339-342: the task id is bound to the filtered list, or popped
SharedStore(t) ==
    /\ pc[t] = "store"
    /\ LET task == Head(sim[t].items).task
           rest == Tail(sim[t].items)
           there == task \in DOMAIN traceRaw
           others == {u \in Callers \ {t} : pc[u] \in {"filter", "store"}}
       IN  /\ IF sim[t].filtered # <<>>
              THEN /\ traceRaw' = Put(traceRaw, task, sim[t].filtered)
                   /\ got' = [got EXCEPT !.order = Placed(traceRaw, got.order, task)]
              ELSE /\ traceRaw' = Without(traceRaw, task)
                   /\ got' = [got EXCEPT !.order = Dropped(got.order, task)]
           /\ sim' = [u \in Threads |->
                        IF u = t THEN [sim[t] EXCEPT !.items = rest, !.filtered = <<>>]
                        ELSE IF u \in others /\ there
                        THEN [sim[u] EXCEPT !.items = LetGo(sim[u].items, task,
                                                            traceRaw[task])]
                        ELSE sim[u]]
           /\ pc' = [pc EXCEPT ![t] = IF rest = <<>> THEN "summaries" ELSE "filter"]
    /\ UNCHANGED <<now, traceSummary>>
    /\ SharedIdle

\* llm.py:343-345, and the return of record_raw and record_summary
SharedSummaries(t) ==
    /\ pc[t] = "summaries"
    /\ traceSummary' = CleanupSummary(traceSummary, sim[t].at)
    /\ pc' = [pc EXCEPT ![t] = IF sim[t].op = "get_trace" THEN "read" ELSE "idle"]
    /\ UNCHANGED <<now, traceRaw, sim, got>>
    /\ SharedIdle

\* llm.py:308-329: the entries of the task id as get_trace returns them
SharedRead(t) ==
    /\ pc[t] = "read"
    /\ got' = [got EXCEPT !.seen =
                 <<[task |-> sim[t].task, since |-> sim[t].since, at |-> now,
                    raw |-> IF sim[t].task \in DOMAIN traceRaw
                            THEN traceRaw[sim[t].task] ELSE <<>>]>>]
    /\ pc' = [pc EXCEPT ![t] = "idle"]
    /\ UNCHANGED <<now, traceRaw, traceSummary, sim>>
    /\ SharedIdle

\* the raw time-to-live of what was recorded so far passes
SharedTick ==
    /\ now = 0
    /\ now' = RawTTL + 1
    /\ UNCHANGED <<traceRaw, traceSummary, pc, sim, got>>
    /\ SharedIdle

SharedInit ==
    /\ now = 0
    /\ cache = <<>>
    /\ traceRaw = <<>>
    /\ traceSummary = <<>>
    /\ taskq = <<>>
    /\ req = [t \in Threads |-> NoRequest]
    /\ sim = [t \in Threads |-> NoSim]
    /\ res = [t \in Threads |-> NoResult]
    /\ err = [t \in Threads |-> None]
    /\ versionStore = <<>>
    /\ pending = {}
    /\ messages = <<>>
    /\ report = [t \in Threads |-> NoReport]
    /\ issued = <<>>
    /\ spawned = [t \in RunThreads |-> FALSE]
    /\ clients = [p \in ProviderSet |-> TRUE]
    /\ iterations = 1
    /\ pc = [t \in Threads |-> IF t \in Callers THEN "idle" ELSE "none"]
    /\ executor = "thread"
    /\ bucket = NoBucket
    /\ records = <<>>
    /\ alerts = <<>>
    /\ got = [op |-> "store", order |-> <<>>, log |-> <<>>, seen |-> <<>>]

SharedNext ==
    \/ SharedTick
    \/ \E t \in Callers :
        \/ SharedAppend(t)
        \/ SharedSummary(t)
        \/ SharedGet(t)
        \/ SharedItems(t)
        \/ SharedFilter(t)
        \/ SharedStore(t)
        \/ SharedSummaries(t)
        \/ SharedRead(t)

SharedSpec == SharedInit /\ [][SharedNext]_vars

(***************************************************************************)
(* Properties of one simulate call (SimSpec).                              *)
(***************************************************************************)
\* C1: within one live simulate call, once a provider's failure streak has
\* reached 3 the provider is out of the active set, and no later prompt of
\* that call goes to it.
C1_BenchedNeverCalled ==
    [][\A p \in ProviderSet :
         sim[SimT].strikes[p] >= StrikeLimit =>
            /\ sim[SimT].strikes[p] = StrikeLimit
            /\ p \notin sim[SimT].active
            /\ p \notin sim'[SimT].active
            /\ ~(sim'[SimT].ncall > sim[SimT].ncall /\ sim'[SimT].last.plat = p)]_vars

\* a provider is benched and the call went on to ask another provider
C1_Witness ==
    \E p \in ProviderSet :
        /\ sim[SimT].strikes[p] = StrikeLimit
        /\ p \notin sim[SimT].active
        /\ sim[SimT].last.plat \in ProviderSet \ {p}
        /\ sim[SimT].last.outcome \in Contents

IssuedFor(k) == {i \in 1..Len(issued) : issued[i].key = k}
IssuedBy(t) == {i \in 1..Len(issued) : issued[i].by = t}
SentBy(t) == {i \in 1..Len(messages) : messages[i].by = t}
LiveResult(t) ==
    /\ err[t] = None
    /\ ~res[t].degraded
    /\ res[t].observations # <<>>
    /\ res[t].cache_note = None

\* C3: run raises SensitiveContentError, without a provider call and without
\* a report, whenever the company name or the product description of the
\* request holds a sensitive keyword.
C3_SensitiveRequestRaises ==
    \A t \in RunThreads :
        (/\ req[t] # NoRequest
         /\ ContainsSensitive(req[t].company) \/ ContainsSensitive(req[t].desc)) =>
            /\ err[t] = "SensitiveContentError"
            /\ sim[t].ncall = 0
            /\ report[t] = NoReport

\* C5: for a fixed identity key the counter starts at 1 and goes up by exactly
\* 1 per report that run produces, degraded or not, and by 1 more only for a
\* job whose re-run was live; so the n-th number handed out for a key is n,
\* and without a live job in between the n-th report of the key has version n.
C5_VersionCounts ==
    /\ \A k \in RunKeys :
         /\ IssuedFor(k) = {} <=> k \notin DOMAIN versionStore
         /\ IssuedFor(k) # {} => versionStore[k] = Cardinality(IssuedFor(k))
    /\ DOMAIN versionStore \subseteq RunKeys
    /\ \A i \in 1..Len(issued) :
         LET k == issued[i].key
             reportsUpTo == {n \in IssuedFor(k) : n <= i /\ issued[n].kind = "report"}
             updatesBefore == {n \in IssuedFor(k) : n < i /\ issued[n].kind = "update"}
         IN  /\ issued[i].version = Cardinality({n \in IssuedFor(k) : n <= i})
             /\ issued[i].kind = "report" =>
                  /\ IsRun(issued[i].by)
                  /\ issued[i].version = Cardinality(reportsUpTo) + Cardinality(updatesBefore)
                  /\ updatesBefore = {} => issued[i].version = Cardinality(reportsUpTo)
             /\ issued[i].kind = "update" =>
                  /\ IsJob(issued[i].by)
                  /\ LiveResult(issued[i].by)
    /\ \A t \in RunThreads :
         /\ pc[t] \in {"sched", "done"} =>
              /\ Cardinality(IssuedBy(t)) = 1
              /\ \A i \in IssuedBy(t) :
                   /\ issued[i].version = report[t].version
                   /\ issued[i].key = report[t].key
                   /\ issued[i].kind = "report"
         /\ pc[t] \notin {"sched", "done"} => IssuedBy(t) = {}

\* two reports for one key, the second one degraded, carry versions 1 and 2
C5_Witness ==
    /\ Len(issued) = 2
    /\ issued[1].key = issued[2].key
    /\ issued[1].kind = "report" /\ issued[2].kind = "report"
    /\ \E t \in RunThreads :
         /\ pc[t] = "done"
         /\ report[t].metrics.degraded
         /\ report[t].version = 2

\* C6: whatever the interleaving of run calls and jobs on one identity key, no
\* two reports or notifications for the key carry the same version, and the
\* versions are strictly increasing in the order they were handed out.
C6_VersionsUnique ==
    /\ \A i, j \in 1..Len(issued) :
         (i < j /\ issued[i].key = issued[j].key) => issued[i].version < issued[j].version
    /\ \A t, u \in Threads :
         (/\ t # u
          /\ report[t].version # 0
          /\ report[u].version # 0
          /\ report[t].key = report[u].key) => report[t].version # report[u].version
    /\ \A m \in 1..Len(messages) :
         /\ messages[m].version = report[messages[m].by].version
         /\ messages[m].version # 0
         /\ \A n \in 1..Len(messages) :
              (/\ n # m
               /\ report[messages[n].by].key = report[messages[m].by].key)
                  => messages[n].version # messages[m].version

\* two runs on one key overlapped: the one that started second got its
\* version first, and a job for the key has sent the third
C6_Witness ==
    /\ Len(issued) = 3
    /\ issued[1].by = RunT(2)
    /\ issued[2].by = RunT(1)
    /\ issued[1].key = issued[2].key
    /\ issued[3].key = issued[1].key
    /\ messages # <<>>

\* C7: a job started for a cache-noted report whose re-run of simulate is
\* live (not degraded, with observations, without a cache note) takes one
\* version and sends one notification, with that version and with the figures
\* rebuilt from the fresh observations, the cache note cleared; if no other
\* version was handed out for the key in between, it is the report's + 1.
C7_LiveJobNotifiesOnce ==
    \A j \in JobThreads :
        /\ pc[j] # "none" => report[RunOf(j)].metrics.cache_note = CacheNote
        /\ (pc[j] \in {"jversion", "jnotify", "jfinally", "done"} /\ LiveResult(j)) =>
             LET fresh == BuildMetrics(res[j].observations, iterations,
                                       res[j].coverage, None)
             IN  /\ report[j].metrics = fresh
                 /\ report[j].metrics.cache_note = None
                 /\ report[j].task = res[j].task
                 /\ res[j].task \in DOMAIN traceSummary
                 /\ traceSummary[res[j].task].payload.cache_note = None
                 /\ Cardinality(IssuedBy(j)) = IF pc[j] = "jversion" THEN 0 ELSE 1
                 /\ Cardinality(SentBy(j)) = IF pc[j] \in {"jversion", "jnotify"}
                                             THEN 0 ELSE 1
                 /\ \A m \in SentBy(j) :
                      /\ messages[m].to = req[RunOf(j)].email
                      /\ messages[m].sov = fresh.sov
                      /\ messages[m].neg = fresh.neg
                      /\ messages[m].task = res[j].task
                      /\ \A i \in IssuedBy(j) :
                           /\ messages[m].version = issued[i].version
                           /\ issued[i].kind = "update"
                           /\ issued[i].key = report[RunOf(j)].key
                           /\ (\A r \in IssuedBy(RunOf(j)) :
                                 ~\E n \in IssuedFor(issued[i].key) : r < n /\ n < i)
                                => messages[m].version = report[RunOf(j)].version + 1

\* a job has finished after a live re-run, and its notification carries the
\* version after the report's
C7_Witness ==
    \E j \in JobThreads :
        /\ pc[j] = "done"
        /\ LiveResult(j)
        /\ \E m \in SentBy(j) :
             /\ messages[m].version = report[RunOf(j)].version + 1
             /\ messages[m].sov > 0

\* C8: a job whose re-run of simulate is degraded, still carries a cache
\* note, or raises SensitiveContentError ends silently: it takes no version
\* (the counter of the key stays as it is) and sends no notification.
C8_SilentJob ==
    /\ \A j \in JobThreads :
         (/\ pc[j] \in {"jfinally", "done"}
          /\ \/ err[j] = "SensitiveContentError"
             \/ err[j] = None /\ (res[j].degraded \/ res[j].cache_note # None)) =>
              /\ IssuedBy(j) = {}
              /\ SentBy(j) = {}
              /\ report[j] = NoReport
    /\ \A k \in DOMAIN versionStore : versionStore[k] = Cardinality(IssuedFor(k))

\* one job ended on a sensitive response and another on a cache-noted result
C8_Witness ==
    \E j, k \in JobThreads :
        /\ pc[j] = "done" /\ err[j] = "SensitiveContentError"
        /\ pc[k] = "done" /\ err[k] = None /\ res[k].cache_note # None

\* C9: at any time at most one job per identity key is scheduled and not
\* finished; a run with a cache-noted report that finds a job for its key
\* pending starts no second job.
C9_OnePendingJobPerKey ==
    /\ \A j, k \in JobThreads :
         (/\ j # k
          /\ pc[j] \notin {"none", "done"}
          /\ pc[k] \notin {"none", "done"}) => VersionKey(req[j]) # VersionKey(req[k])
    /\ pending = {VersionKey(req[j]) : j \in {k \in JobThreads : pc[k] \notin {"none", "done"}}}
    /\ \A t \in RunThreads :
         /\ spawned[t] <=> pc[JobOf(t)] # "none"
         /\ spawned[t] => pc[t] = "done" /\ report[t].metrics.cache_note # None

\* a run with a cache-noted report has returned without starting a job, the
\* job of the other run for the same key being still pending
C9_Witness ==
    \E t, u \in RunThreads :
        /\ t # u
        /\ pc[t] = "done"
        /\ report[t].metrics.cache_note # None
        /\ ~spawned[t]
        /\ pc[JobOf(u)] \notin {"none", "done"}
        /\ VersionKey(req[t]) = VersionKey(req[u])
        /\ VersionKey(req[t]) \in pending

\* C10: every key that enters the pending-retry set leaves it again: its job
\* finishes, whether it notified, ended silently or raised, and takes the key
\* out, so that a later cache-noted run for the key can start a job again.
C10_PendingCleared ==
    \A k \in RunKeys : (k \in pending) ~> (k \notin pending)

\* a job was started for a key whose earlier job had raised and finished
C10_Witness ==
    \E j, k \in JobThreads :
        /\ j # k
        /\ pc[j] = "done" /\ err[j] = "KeyError"
        /\ pc[k] \notin {"none", "done"}
        /\ VersionKey(req[j]) = VersionKey(req[k])
        /\ pending = {VersionKey(req[k])}

\* C11, amended: run builds the report, with its version and its cache note,
\* before it hands the job to the executor, and the job does not change it;
\* when run returns depends on the executor: one that calls the job on the
\* spot lets run return (or raise what the job raised) only after the job
\* has finished, while under the thread executor the job may start or
\* finish before run returns.
C11_ReportBuiltBeforeJob ==
    \A t \in RunThreads :
        /\ pc[JobOf(t)] # "none" =>
             /\ spawned[t]
             /\ pc[t] \in {"submitted", "done", "raised"}
             /\ report[t].version >= 1
             /\ report[t].metrics.cache_note = CacheNote
             /\ \A i \in IssuedBy(JobOf(t)) : issued[i].version > report[t].version
             /\ \A i \in IssuedBy(t) : issued[i].version = report[t].version
        /\ (spawned[t] /\ executor = "immediate" /\ pc[t] \in {"done", "raised"}) =>
             /\ pc[JobOf(t)] = "done"
             /\ pc[t] = "raised" <=> err[JobOf(t)] = "KeyError"
        /\ (spawned[t] /\ pc[t] = "raised") => executor = "immediate"

\* under the executor that calls the job on the spot, the notification of the
\* job is out while run has not yet returned its report
C11_Witness ==
    \E t \in RunThreads :
        /\ executor = "immediate"
        /\ pc[t] = "submitted"
        /\ pc[JobOf(t)] = "done"
        /\ SentBy(JobOf(t)) # {}
        /\ report[t].version = 1

(***************************************************************************)
(* Properties of the token bucket (BucketSpec).                            *)
(***************************************************************************)
\* C12: after any sequence of consume calls, passing or failing, and of time
\* advances, the token count of the bucket is at least 0 and at most its
\* capacity.
C12_TokensInRange ==
    /\ bucket.tokens \in 0..bucket.capacity
    /\ bucket.short = 1 => bucket.tokens >= 1
    /\ bucket.updated_at \in 0..now

\* a consume call failed on a bucket that time had partly refilled
C12_Witness ==
    /\ got.op = "consume"
    /\ got.out = "RateLimitError"
    /\ got.elapsed > 0
    /\ bucket.tokens > 0
    /\ bucket.tokens < bucket.capacity

\* C13: on an empty bucket that has seen no consume call for at least
\* capacity / refill rate, consume(capacity) succeeds.
C13_FullAfterWait ==
    (/\ got.op = "consume"
     /\ got.empty
     /\ got.n = bucket.capacity
     /\ got.elapsed * bucket.rate >= bucket.capacity) => got.out = "ok"

(***************************************************************************)
(* Properties of the response cache (CacheSpec).                           *)
(***************************************************************************)
\* C14: a read of a key before the time-to-live has passed since the last
\* write of the key returns the call that was written, a read after it has
\* passed returns nothing, and nothing is returned for a key except its last
\* write, no later than the time-to-live after it.
C14_CacheHonoursTTL ==
    got.op = "read" =>
        /\ got.key \notin DOMAIN got.writes => ~got.hit
        /\ got.key \in DOMAIN got.writes =>
             LET w == got.writes[got.key]
                 age == got.at - w.at
             IN  /\ age < CacheTTL => got.hit /\ got.call = w.call
                 /\ age > CacheTTL => ~got.hit /\ got.key \notin DOMAIN cache
                 /\ got.hit => age <= CacheTTL /\ got.call = w.call

\* a read found the entry of its key too old and dropped it, while the entry
\* of the other key, written later, is still there
C14_Witness ==
    /\ got.op = "read"
    /\ ~got.hit
    /\ got.key \in DOMAIN got.writes
    /\ got.key \notin DOMAIN cache
    /\ cache # <<>>

(***************************************************************************)
(* Properties of the cache fallback of simulate (WarmSpec).                *)
(***************************************************************************)
\* one failed prompt (LLMClientError) of the live loop: with an entry of the
\* same provider and prompt no older than the time-to-live, the entry's call,
\* marked cached, is the call of that prompt, the observation of the
\* iteration and provider is marked cached, and the note is set; with no such
\* entry the calls of the iteration and the note stay as they were
C15_FailedPrompt ==
    LET s == sim[SimT]
        s2 == sim'[SimT]
        key == CacheKeyOf(s.plat, BuildPrompt(s.ptype, req[SimT]))
        hit == key \in DOMAIN cache /\ now - cache[key].ts <= CacheTTL
        served == [cache[key].call EXCEPT !.cached = TRUE]
    IN  (/\ pc[SimT] = "call"
         /\ s2.ncall = s.ncall + 1
         /\ s2.last.outcome \in {"exhausted", "nochoices"})
        => /\ hit =>
                /\ s2.note = CacheNote
                /\ IF Len(s2.obs) > Len(s.obs)
                   THEN LET o == s2.obs[Len(s2.obs)] IN
                        /\ o.cached
                        /\ o.iter = s.iter
                        /\ o.platform = s.plat
                        /\ o = CallsToObservation(
                                   [s EXCEPT !.calls = Put(s.calls, s.ptype, served)])
                   ELSE /\ s.ptype \in DOMAIN s2.calls
                        /\ s2.calls[s.ptype] = served
           /\ ~hit =>
                /\ s2.note = s.note
                /\ \/ s2.calls = s.calls /\ s2.obs = s.obs
                   \/ /\ s2.calls = <<>>
                      /\ s2.obs = IF DOMAIN s.calls = {} THEN s.obs
                                  ELSE Append(s.obs, CallsToObservation(s))

\* the result of a live call: it carries the note exactly when one of its
\* observations is marked cached
C15_ResultNoted ==
    (pc[SimT] = "simret" /\ sim[SimT].fin) =>
        /\ res[SimT].cache_note = sim[SimT].note
        /\ (res[SimT].cache_note = CacheNote
              <=> \E i \in DOMAIN res[SimT].observations :
                      res[SimT].observations[i].cached)

\* C15: on the live path a prompt whose attempts all failed is served from a
\* cache entry of the same provider and prompt within the time-to-live,
\* marked cached in the call and the observation, and the result carries the
\* cache note; with no such entry no call is recorded for the prompt.
C15_CacheFallback == [][C15_FailedPrompt]_vars /\ []C15_ResultNoted

\* a call returned in which no provider ever answered: its last prompt
\* exhausted its attempts and was served from the entry an earlier call wrote
\* a day before, after a failed evaluation prompt that found nothing
C15_Witness ==
    /\ pc[SimT] = "simret"
    /\ sim[SimT].fin
    /\ sim[SimT].last.outcome = "exhausted"
    /\ res[SimT].cache_note = CacheNote
    /\ Len(res[SimT].observations) = 2
    /\ res[SimT].observations[2].cached
    /\ res[SimT].observations[2].iter = 1
    /\ \A p \in ProviderSet : ~res[SimT].coverage[p]
    /\ \A k \in DOMAIN cache : cache[k].ts = 0 - CacheTTL

(***************************************************************************)
(* Properties of the secrets manager (SecretSpec).                         *)
(***************************************************************************)
\* C16: for a registered secret with a positive quota, record_usage has
\* appended exactly one alert since the registration if the cumulative usage
\* has reached 80% of the quota and none if it has not, and the alert was
\* appended by the very call that took the usage from below 80% to 80% or more.
C16_OneAlertAtThreshold ==
    /\ \A name \in DOMAIN records :
          records[name].quota_limit > 0 =>
              Raised[name] = IF records[name].usage * 10 >= records[name].quota_limit * 8
                             THEN 1 ELSE 0
    /\ (got.op = "record" /\ got.appended) =>
          /\ got.name \in DOMAIN records
          /\ got.before * 10 < records[got.name].quota_limit * 8
          /\ records[got.name].usage * 10 >= records[got.name].quota_limit * 8
          /\ alerts # <<>>
          /\ alerts[Len(alerts)] = [name |-> got.name,
                                    usage |-> records[got.name].usage,
                                    quota_limit |-> records[got.name].quota_limit]

\* a record_usage after the alert: the usage is past the threshold and has
\* grown since the alert, and still one alert only
C16_Witness ==
    /\ got.op = "record"
    /\ ~got.appended
    /\ got.name \in DOMAIN records
    /\ records[got.name].quota_limit > 0
    /\ got.before * 10 >= records[got.name].quota_limit * 8
    /\ records[got.name].usage > got.before
    /\ Raised[got.name] = 1
    /\ Len(alerts) = 1

(***************************************************************************)
(* Properties of the trace store (TraceSpec).                              *)
(***************************************************************************)
\* the raw entries of a task recorded no longer than ttl before day t, in
\* the order of their recording
RawWithin(task, t, ttl) ==
    LET e(i) == RawLog[i]
        F[i \in 0..Len(RawLog)] ==
            IF i = 0 THEN <<>>
            ELSE IF e(i).task = task /\ t - e(i).at <= ttl
                 THEN Append(F[i - 1], [platform |-> "doubao", ptype |-> "discovery",
                                        content |-> e(i).content, at |-> e(i).at])
                 ELSE F[i - 1]
    IN  F[Len(RawLog)]

\* C17: get_trace returns every raw entry of the task recorded less than the
\* raw time-to-live before and none recorded more than that before; it
\* returns the task's summary when it was recorded less than the summary
\* time-to-live before and none when more than that; neither depends on the
\* other.
C17_TraceRetention ==
    got.op = "get_trace" =>
        /\ got.raw = RawWithin(got.task, got.at, RawTTL)
        /\ \A i \in DOMAIN RawLog :
              RawLog[i].task = got.task =>
                 LET age == got.at - RawLog[i].at
                     back == \E j \in DOMAIN got.raw :
                                /\ got.raw[j].at = RawLog[i].at
                                /\ got.raw[j].content = RawLog[i].content
                 IN  /\ age < RawTTL => back
                     /\ age > RawTTL => ~back
        /\ got.task \notin DOMAIN SummaryLog => got.summary = NoSummary
        /\ got.task \in DOMAIN SummaryLog =>
              LET w == SummaryLog[got.task]
                  age == got.at - w.at
              IN  /\ age < SummaryTTL => got.summary = w
                  /\ age > SummaryTTL => got.summary = NoSummary
                  /\ got.summary \in {w, NoSummary}

\* get_trace of a task returned its summary and no raw entry, though raw
\* entries of the task were recorded after the summary
C17_Witness ==
    /\ got.op = "get_trace"
    /\ got.raw = <<>>
    /\ got.summary # NoSummary
    /\ \E i \in DOMAIN RawLog :
          /\ RawLog[i].task = got.task
          /\ RawLog[i].at > got.summary.at

(***************************************************************************)
(* Properties of the result of a live simulate call (SimSpec).             *)
(***************************************************************************)
\* C18: a result returned by simulate on the live path is degraded exactly
\* when it has no observation.
C18_DegradedIffEmpty ==
    (pc[SimT] = "simret" /\ sim[SimT].fin) =>
        /\ res[SimT].task = sim[SimT].task
        /\ res[SimT].observations = sim[SimT].obs
        /\ res[SimT].degraded <=> Len(res[SimT].observations) = 0

\* a live call returned after both providers were asked and benched, with
\* nothing observed
C18_Witness ==
    /\ pc[SimT] = "simret"
    /\ sim[SimT].fin
    /\ sim[SimT].ncall = 2 * StrikeLimit
    /\ sim[SimT].active = {}
    /\ res[SimT].degraded
    /\ res[SimT].observations = <<>>

(***************************************************************************)
(* Properties of the report of a run without a reachable provider (Spec).  *)
(***************************************************************************)
NoneConfigured == \A p \in ProviderSet : ~clients[p]

\* the live loop of run t ended and no provider ever answered it
Unreachable(t) == sim[t].fin /\ \A p \in ProviderSet : ~sim[t].cov[p]

\* C19, as claimed: a run with no provider configured, or with every
\* configured provider unreachable, returns a degraded report with the
\* estimation note and round(iterations * benchmark rate / 100)
\* recommendations.
C19_DegradedWithoutProviders ==
    \A t \in RunThreads :
        (pc[t] = "done" /\ (NoneConfigured \/ Unreachable(t))) =>
            /\ report[t].metrics.degraded
            /\ report[t].metrics.estimation = EstimationNote
            /\ report[t].metrics.rec = RoundHalfEven(iterations * BenchmarkRate, 100)

\* C19, amended: the report of a run is degraded exactly when simulate gave
\* no observation, and then it has the estimation note and
\* round(iterations * benchmark rate / 100) recommendations.  That is the
\* case when every configured provider is unreachable and no prompt was
\* served from the cache; it is not when prompts were served from the cache,
\* nor when no provider is configured.
C19_DegradedWhenNothingObserved ==
    \A t \in RunThreads :
        (pc[t] = "done" /\ report[t].task # <<>>) =>
            LET m == report[t].metrics IN
            /\ err[t] = None
            /\ m.degraded <=> res[t].observations = <<>>
            /\ m.degraded =>
                  /\ m.estimation = EstimationNote
                  /\ m.rec = RoundHalfEven(iterations * BenchmarkRate, 100)
                  /\ m.cache_note = None
                  /\ Unreachable(t)
            /\ ~m.degraded => m.estimation = None
            /\ (Unreachable(t) /\ res[t].cache_note = None) => m.degraded
            /\ (Unreachable(t) /\ res[t].cache_note # None) => ~m.degraded
            /\ NoneConfigured => ~m.degraded

\* a run returned the estimate after both providers failed every call,
\* although the cache holds answers to another request
C19_Witness ==
    \E t \in RunThreads :
        /\ pc[t] = "done"
        /\ Unreachable(t)
        /\ sim[t].ncall = 2 * StrikeLimit
        /\ report[t].metrics.degraded
        /\ report[t].metrics.estimation = EstimationNote
        /\ cache # <<>>

(***************************************************************************)
(* Properties of the offline run (OfflineSpec).                            *)
(***************************************************************************)
\* every call returned iterations observations for each of the two virtual
\* providers, not degraded, nothing covered, no cache note, under its own
\* task id
OfflineShape ==
    \A k \in DOMAIN got.calls :
        LET c == got.calls[k] IN
        /\ Len(c.res.observations) = c.n * Len(Providers)
        /\ \A p \in ProviderSet :
              Cardinality({i \in DOMAIN c.res.observations :
                              c.res.observations[i].platform = p}) = c.n
        /\ \A i \in DOMAIN c.res.observations : ~c.res.observations[i].cached
        /\ ~c.res.degraded
        /\ \A p \in ProviderSet : ~c.res.coverage[p]
        /\ c.res.cache_note = None
        /\ \A j \in DOMAIN got.calls : j # k => got.calls[j].res.task # c.res.task

\* C20, as claimed: the offline result has iterations * 2 observations, is
\* not degraded, covers nothing and has no cache note, and two calls with
\* the same description and iterations return the same observations.
C20_SameDescriptionSameObservations ==
    /\ OfflineShape
    /\ \A j, k \in DOMAIN got.calls :
          (got.calls[j].desc = got.calls[k].desc /\ got.calls[j].n = got.calls[k].n)
              => got.calls[j].res.observations = got.calls[k].res.observations

\* C20, amended: the same, with the observations of two calls equal when the
\* description, the industry and the iterations are the same.
C20_SameRequestSameObservations ==
    /\ OfflineShape
    /\ \A j, k \in DOMAIN got.calls :
          (/\ got.calls[j].desc = got.calls[k].desc
           /\ got.calls[j].industry = got.calls[k].industry
           /\ got.calls[j].n = got.calls[k].n)
              => got.calls[j].res.observations = got.calls[k].res.observations

\* two calls with the same description, industry and iterations, in which an
\* observation names a competitor of the industry
C20_Witness ==
    /\ Len(got.calls) = 2
    /\ got.calls[1].desc = got.calls[2].desc
    /\ got.calls[1].industry = got.calls[2].industry
    /\ got.calls[1].n = MaxIterations
    /\ got.calls[2].n = MaxIterations
    /\ got.calls[1].res.observations = got.calls[2].res.observations
    /\ \E i \in DOMAIN got.calls[1].res.observations :
          got.calls[1].res.observations[i].competitor = "CrestPay"

(***************************************************************************)
(* Properties of a live simulate call, over its log (LiveSpec).            *)
(***************************************************************************)
Failures == {"exhausted", "nochoices"}

\* every prompt sent to provider p failed and none was served from the cache
AlwaysFailed(p) ==
    /\ \E i \in DOMAIN Log : Log[i].plat = p
    /\ \A i \in DOMAIN Log :
          Log[i].plat = p => Log[i].outcome \in Failures /\ ~Log[i].served

\* every prompt sent to provider p was answered
AlwaysAnswered(p) ==
    /\ \E i \in DOMAIN Log : Log[i].plat = p
    /\ \A i \in DOMAIN Log : Log[i].plat = p => Log[i].outcome \in Contents

Returned == pc[SimT] = "simret" /\ sim[SimT].fin

\* C21: a live call with one provider whose every call failed, nothing
\* cached for it, and one whose every call was answered returns a result
\* that is not degraded, covers the second and not the first, and holds one
\* observation of the second per iteration and none of the first.
C21_OtherProviderContinues ==
    \A a, b \in ProviderSet :
        (Returned /\ AlwaysFailed(a) /\ AlwaysAnswered(b)) =>
            /\ ~res[SimT].degraded
            /\ ~res[SimT].coverage[a]
            /\ res[SimT].coverage[b]
            /\ Len(res[SimT].observations) = iterations
            /\ \A i \in DOMAIN res[SimT].observations :
                  /\ res[SimT].observations[i].platform = b
                  /\ res[SimT].observations[i].iter = i - 1
                  /\ ~res[SimT].observations[i].cached

\* the first provider failed three times and was benched, the second was
\* answered in every iteration
C21_Witness ==
    /\ Returned
    /\ AlwaysFailed("doubao")
    /\ AlwaysAnswered("deepseek")
    /\ Cardinality({i \in DOMAIN Log : Log[i].plat = "doubao"}) = StrikeLimit
    /\ Len(res[SimT].observations) = MaxIterations
    /\ res[SimT].coverage = [p \in ProviderSet |-> p = "deepseek"]

\* C22: at every point of a live call, and in its result, coverage of a
\* provider is true exactly when a call to it was answered during this call;
\* a prompt served from the cache does not set it, and nothing resets it.
C22_CoverageIffLiveSuccess ==
    /\ sim[SimT].task # <<>> =>
          \A p \in ProviderSet :
              sim[SimT].cov[p] <=>
                  \E i \in DOMAIN Log : Log[i].plat = p /\ Log[i].outcome \in Contents
    /\ Returned => res[SimT].coverage = sim[SimT].cov

\* a call returned in which one provider was served from the cache and is
\* not covered, after the other was answered and is
C22_Witness ==
    /\ Returned
    /\ \E i \in DOMAIN Log : Log[i].plat = "deepseek" /\ Log[i].served
    /\ \E i \in DOMAIN res[SimT].observations :
          /\ res[SimT].observations[i].platform = "deepseek"
          /\ res[SimT].observations[i].cached
    /\ ~res[SimT].coverage["deepseek"]
    /\ res[SimT].coverage["doubao"]

\* the (iteration, provider) pairs of the call that had a call, answered or
\* served from the cache
PairsWithCall ==
    {<<Log[i].iter, Log[i].plat>> :
        i \in {j \in DOMAIN Log : Log[j].outcome \in Contents \/ Log[j].served}}

\* C23: the observations of a live call are in iteration order, then
\* provider order, so each (iteration, provider) pair has at most one; the
\* pairs that have one in the result are those that had a call, answered or
\* served from the cache.
C23_ObservationOrder ==
    /\ \A i, j \in DOMAIN sim[SimT].obs :
          i < j =>
             LET a == sim[SimT].obs[i]
                 b == sim[SimT].obs[j]
             IN  \/ a.iter < b.iter
                 \/ a.iter = b.iter /\ Idx(a.platform) < Idx(b.platform)
    /\ \A i \in DOMAIN sim[SimT].obs : sim[SimT].obs[i].ord = i
    /\ Returned =>
          /\ res[SimT].observations = sim[SimT].obs
          /\ {<<sim[SimT].obs[i].iter, sim[SimT].obs[i].platform>> :
                 i \in DOMAIN sim[SimT].obs} = PairsWithCall

\* a call returned three observations: the first provider had no call at
\* all in the first iteration and has none for it
C23_Witness ==
    /\ Returned
    /\ Len(res[SimT].observations) = 3
    /\ <<0, "doubao">> \notin PairsWithCall
    /\ \E i \in DOMAIN Log : Log[i].iter = 0 /\ Log[i].plat = "doubao"
    /\ res[SimT].observations[1].platform = "deepseek"
    /\ res[SimT].observations[2].platform = "doubao"
    /\ res[SimT].observations[2].iter = 1

(***************************************************************************)
(* Properties of the validation of run (Spec).                             *)
(***************************************************************************)
\* C24: a run whose request has a product description shorter than 10
\* characters raises ValidationError, and has sent no prompt, created no
\* task, issued no version and built no report.
C24_ShortDescriptionRejected ==
    \A t \in RunThreads :
        (req[t] # NoRequest /\ StrippedLen(req[t].desc) < MinDescriptionLen) =>
            /\ pc[t] = "raised"
            /\ err[t] = "ValidationError"
            /\ sim[t] = NoSim
            /\ res[t] = NoResult
            /\ report[t] = NoReport
            /\ \A i \in DOMAIN taskq : taskq[i][1] # t
            /\ \A k \in DOMAIN cache : cache[k].call.task[1] # t
            /\ \A i \in DOMAIN issued : issued[i].by # t

\* a run was rejected for a description that is too short and also holds a
\* sensitive keyword, while the other run went through
C24_Witness ==
    \E t, u \in RunThreads :
        /\ req[t] # NoRequest
        /\ req[t].desc = "weapon"
        /\ err[t] = "ValidationError"
        /\ pc[u] = "done"
        /\ cache # <<>>

(***************************************************************************)
(* Properties of the attempts of one prompt (InvokeSpec).                  *)
(***************************************************************************)
Attempted == got.log

\* the loop's locals but for the history fields
SameLocals(a, b) ==
    /\ a.strikes = b.strikes
    /\ a.cov = b.cov
    /\ a.note = b.note
    /\ a.active = b.active
    /\ a.calls = b.calls
    /\ a.obs = b.obs
    /\ a.iter = b.iter
    /\ a.plat = b.plat
    /\ a.ptype = b.ptype

\* C25, as claimed: an attempt for which the client was called while the
\* provider's credential was absent raises KeyError, which ends the prompt
\* and the call at once.
C25_AbsentCredentialAborts ==
    \A i \in DOMAIN Attempted :
        Attempted[i].absent =>
            /\ Attempted[i].result = "KeyError"
            /\ i = Len(Attempted)
            /\ got.outcome = "nokey"
            /\ err[SimT] = "KeyError"

\* C25, what the code does: an attempt for which the client was called
\* while the credential was absent raises KeyError unless the rate limiter
\* refused it first; a KeyError is the last attempt of the prompt, whatever the attempt
\* number and the strike count, and simulate raises it with the strike
\* counts, the calls of the iteration, the cache note and the cache as they
\* were before the prompt.
C25_KeyErrorAborts ==
    /\ \A i \in DOMAIN Attempted :
          /\ Attempted[i].absent =>
                Attempted[i].result \in {"KeyError", "RateLimitError"}
          /\ Attempted[i].result = "KeyError" =>
                i = Len(Attempted) /\ got.outcome = "nokey"
    /\ got.outcome = "nokey" =>
          /\ pc[SimT] = "raised"
          /\ err[SimT] = "KeyError"
          /\ SameLocals(sim[SimT], got.pre)
          /\ cache = got.cache0
          /\ traceRaw = <<>>
          /\ res[SimT] = NoResult

\* the credential was revoked after a first attempt failed in the network:
\* the second attempt raised KeyError, with two strikes on the provider and
\* an entry in the cache for the very prompt
C25_Witness ==
    /\ got.outcome = "nokey"
    /\ Len(Attempted) = 2
    /\ Attempted[1].result = "RequestException"
    /\ Attempted[2].result = "KeyError"
    /\ got.pre.strikes[got.pre.plat] = 2
    /\ CacheKeyOf(got.pre.plat, BuildPrompt(got.pre.ptype, req[SimT])) \in DOMAIN cache
    /\ err[SimT] = "KeyError"

\* C26: every response to the DeepSeek client with a choice whose finish
\* reason is neither stop nor length is refused with LLMClientError, and the
\* refusal is a failed attempt of the retry loop: before the last attempt it
\* is followed by another attempt, at the last attempt the prompt has failed.
C26_AbnormalFinishRetried ==
    \A i \in DOMAIN Attempted :
        LET e == Attempted[i] IN
        /\ (e.plat = "deepseek" /\ e.finish \in FinishReasons \ {"stop", "length"})
              => e.result = "LLMClientError"
        /\ e.result = "LLMClientError" =>
              IF i < Attempts
              THEN got.attempt > i
              ELSE i = Len(Attempted) /\ got.outcome = "exhausted"

\* DeepSeek's first response ended with tool_calls and was refused, its
\* second ended with stop and is the call of the prompt
C26_Witness ==
    /\ Len(Attempted) = 2
    /\ Attempted[1].plat = "deepseek"
    /\ Attempted[1].finish = "tool_calls"
    /\ Attempted[1].result = "LLMClientError"
    /\ Attempted[2].finish = "stop"
    /\ Attempted[2].result = "ok"
    /\ got.outcome = "rec"
    /\ pc[SimT] = "returned"
    /\ records["deepseek"].usage = 2

(***************************************************************************)
(* Properties of the locks (LockSpec).                                     *)
(***************************************************************************)
\* the objects the run and the job both reach
Shared == {"secrets", "bucket", "versions", "pending", "cache", "trace"}

Accessing(t, obj) ==
    OnPath(t) /\ At(t).op \in {"read", "write"} /\ At(t).obj = obj

\* C27, as claimed: a thread that reads or writes the secret registry, a
\* token bucket, the version map, the pending-retry set, the response cache
\* or the trace store holds a lock, and a thread waiting for a provider's
\* response holds none.
C27_LockDiscipline ==
    \A t \in Threads :
        /\ \A obj \in Shared : Accessing(t, obj) => Holds(t) # {}
        /\ (OnPath(t) /\ At(t).op = "network") => Holds(t) = {}

\* C27, what the code does: the registry, the bucket, the version map and
\* the pending set are touched under their lock, by one thread at a time,
\* and no lock is held during the network call.
C27_LockedObjects ==
    /\ \A t \in Threads :
          /\ \A obj \in {"secrets", "bucket"} : Accessing(t, obj) => Holds(t) = {obj}
          /\ \A obj \in {"versions", "pending"} :
                Accessing(t, obj) => Holds(t) = {"version"}
          /\ (OnPath(t) /\ At(t).op = "network") => Holds(t) = {}
    /\ \A t, u \in Threads :
          \A obj \in Shared \ {"cache", "trace"} :
              Accessing(t, obj) /\ Accessing(u, obj) => t = u

\* the job and the next run are both writing the trace store
C27_Race ==
    /\ Accessing(JobT(1), "trace")
    /\ Accessing(RunT(2), "trace")

(***************************************************************************)
(* Properties of the metrics of a report (Spec).                           *)
(***************************************************************************)
Reported == {t \in Threads : report[t] # NoReport}

\* C28, as claimed: the recommendation count of every report is at most the
\* engine's iterations, so its share of voice is at most 100 percent.
C28_RecommendationsBounded ==
    \A t \in Reported :
        /\ report[t].metrics.rec <= iterations
        /\ report[t].metrics.sov <= 10000

\* C29, as claimed: every report carries at least iterations // 5
\* snapshots.
C29_SnapshotsPerFive ==
    \A t \in Reported : report[t].metrics.snapshots >= iterations \div SnapshotEvery

\* C29, amended: an estimated report carries iterations // 5 snapshots and a
\* report computed from observations one per five observations; so every
\* report with at least as many observations as iterations, and every
\* estimated one, carries at least iterations // 5.
C29_SnapshotsPerFiveObservations ==
    \A t \in Reported :
        LET m == report[t].metrics
            seen == Len(res[t].observations)
        IN  /\ m.degraded => m.snapshots = iterations \div SnapshotEvery
            /\ ~m.degraded => m.snapshots = seen \div SnapshotEvery
            /\ (m.degraded \/ seen >= iterations)
                  => m.snapshots >= iterations \div SnapshotEvery

\* one run was estimated and has its snapshot, the other was computed from
\* fewer observations than iterations and has none
C29_Witness ==
    \E t, u \in Reported :
        /\ report[t].metrics.degraded
        /\ report[t].metrics.snapshots = 1
        /\ ~report[u].metrics.degraded
        /\ Len(res[u].observations) \in 1..(iterations - 1)
        /\ report[u].metrics.snapshots = 0

(***************************************************************************)
(* Properties of the secret registry's credentials (RegistrySpec).         *)
(***************************************************************************)
\* the credential of the last register_key of the name that no revoke_key
\* of the name follows, in a history of calls
RECURSIVE LastRegistered(_, _)
LastRegistered(ops, name) ==
    IF ops = <<>> THEN "KeyError"
    ELSE LET o == ops[Len(ops)] IN
         IF o.name # name THEN LastRegistered(SubSeq(ops, 1, Len(ops) - 1), name)
         ELSE IF o.op = "register_key" THEN o.key
         ELSE "KeyError"

\* C30: after any sequence of register and revoke calls, a lookup of a name
\* returns the credential of the most recent register of the name that no
\* revoke of the name follows, and KeyError if there is none; a revoke of an
\* absent name leaves the registry as it was.
C30_LookupLatestRegistered ==
    /\ got.op = "get_key" => got.result = LastRegistered(got.ops, got.name)
    /\ \A name \in ProviderSet :
          (name \in DOMAIN records) = (LastRegistered(got.ops, name) # "KeyError")
    /\ (got.op = "revoke_key" /\ got.name \notin DOMAIN got.before)
          => records = got.before

\* doubao registered twice and deepseek revoked without being there: the
\* lookup of doubao returns the second credential
C30_Witness ==
    /\ got.op = "get_key"
    /\ got.name = "doubao"
    /\ got.result = "key-2"
    /\ Len(got.ops) = 3
    /\ got.ops[1] = [op |-> "register_key", name |-> "doubao", key |-> "key-1"]
    /\ got.ops[2] = [op |-> "register_key", name |-> "doubao", key |-> "key-2"]
    /\ got.ops[3] = [op |-> "revoke_key", name |-> "deepseek", key |-> None]

(***************************************************************************)
(* Properties of the retry loop (InvokeSpec).                              *)
(***************************************************************************)
FailedAttempt(e) == e.result \in {"RateLimitError", "RequestException", "LLMClientError"}

\* the provider's failure streak, before the prompt and now
StreakBefore == got.pre.strikes[got.pre.plat]

Streak == sim[SimT].strikes[got.pre.plat]

AttemptsBounded ==
    /\ Len(Attempted) <= Attempts
    /\ \A i \in DOMAIN Attempted :
          /\ Attempted[i].attempt = i
          /\ Attempted[i].result = "ok" => i = Len(Attempted) /\ ~InvokeRunning
          /\ FailedAttempt(Attempted[i]) =>
                IF i < Attempts THEN got.attempt > i
                ELSE i = Len(Attempted) /\ got.outcome = "exhausted"
          /\ i < Len(Attempted) => FailedAttempt(Attempted[i])

\* C31, as claimed: a prompt has at most 3 attempts and none after the first
\* that succeeds; a rate-limit error, a network error and a client's refusal
\* are each one failed attempt; and the provider's streak is one more than
\* before the prompt only after three failed attempts, and otherwise not more.
C31_StreakAfterThreeAttempts ==
    /\ AttemptsBounded
    /\ Streak > StreakBefore =>
          /\ Streak = StreakBefore + 1
          /\ Len(Attempted) = Attempts
          /\ \A i \in DOMAIN Attempted : FailedAttempt(Attempted[i])

\* C31, amended: as claimed, but the streak is also one more after an
\* attempt that succeeded with a response holding no choices, which is not
\* retried; after an answer the streak is 0, and while the attempts go on, or
\* when the prompt ends with a blocked answer or a missing credential, it is
\* as before.
C31_StreakAfterFailedPrompt ==
    /\ AttemptsBounded
    /\ got.outcome = "exhausted" =>
          /\ Len(Attempted) = Attempts
          /\ \A i \in DOMAIN Attempted : FailedAttempt(Attempted[i])
          /\ Streak = StreakBefore + 1
    /\ got.outcome = "nochoices" =>
          /\ Attempted[Len(Attempted)].result = "ok"
          /\ Streak = StreakBefore + 1
    /\ got.outcome \in Contents => Streak = 0
    /\ got.outcome \in {None, "sensitive", "nokey"} => Streak = StreakBefore

\* the three kinds of failure, one per attempt, and the streak from 2 to 3
C31_Witness ==
    /\ got.outcome = "exhausted"
    /\ Attempted[1].result = "RateLimitError"
    /\ Attempted[2].result = "RequestException"
    /\ Attempted[3].result = "LLMClientError"
    /\ StreakBefore = 2
    /\ Streak = 3
    /\ now = 6

(***************************************************************************)
(* Properties of the circuit breaker (LiveSpec).                           *)
(***************************************************************************)
\* the failed prompts of provider p at the end of a log of prompts, back to
\* its last answered prompt; a blocked answer or a missing credential ends
\* the call and is neither
RECURSIVE TrailingFailures(_, _)
TrailingFailures(log, p) ==
    IF log = <<>> THEN 0
    ELSE LET e == log[Len(log)]
             front == SubSeq(log, 1, Len(log) - 1)
         IN  IF e.plat = p /\ e.outcome \in Contents THEN 0
             ELSE IF e.plat = p /\ e.outcome \in Failures
             THEN 1 + TrailingFailures(front, p)
             ELSE TrailingFailures(front, p)

InLiveLoop == pc[SimT] \in {"call", "simret", "raised"} /\ sim[SimT].task # <<>>

\* C32: a provider's streak is the number of its failed prompts since its
\* last answered one, served from the cache or not; a configured provider is
\* out of the active set exactly when that number is 3, and it never is more.
C32_BenchedAtThreeInARow ==
    InLiveLoop =>
        \A p \in {q \in ProviderSet : clients[q]} :
            LET k == TrailingFailures(Log, p) IN
            /\ sim[SimT].strikes[p] = k
            /\ k <= StrikeLimit
            /\ (p \notin sim[SimT].active) = (k = StrikeLimit)

\* doubao failed, answered, and failed twice more, served from the cache:
\* three failures, two in a row, and it is still active
C32_Witness ==
    /\ InLiveLoop
    /\ LET mine == {i \in DOMAIN Log : Log[i].plat = "doubao"} IN
        /\ Cardinality(mine) = 4
        /\ Cardinality({i \in mine : Log[i].outcome \in Failures}) = 3
        /\ \E i \in mine : Log[i].served
    /\ Log[2].plat = "doubao"
    /\ Log[2].outcome \notin Failures
    /\ sim[SimT].strikes["doubao"] = 2
    /\ "doubao" \in sim[SimT].active

(***************************************************************************)
(* Properties of repeated simulate calls (RerunSpec).                      *)
(***************************************************************************)
\* the prompts of one simulate call in the log
TaskLog(task) == SelectSeq(Log, LAMBDA e : e.task = task)

Configured == {p \in ProviderSet : clients[p]}

\* C33: every simulate call starts with every configured provider active
\* and every streak at 0, and during the call a provider's streak and its
\* benching depend on the prompts of that call alone, whatever the earlier
\* calls and the call of the other thread did.
C33_BenchingPerRun ==
    \A t \in Callers :
        pc[t] \in {"call", "simret"} =>
            /\ sim[t].ncall = 0 =>
                  /\ sim[t].active = Configured
                  /\ \A p \in ProviderSet : sim[t].strikes[p] = 0
            /\ \A p \in Configured :
                  LET k == TrailingFailures(TaskLog(sim[t].task), p) IN
                  /\ sim[t].strikes[p] = k
                  /\ (p \notin sim[t].active) = (k = StrikeLimit)

\* the foreground call starts with doubao active and no strike while the
\* job's call, still in its loop, has doubao benched
C33_Witness ==
    /\ pc[SimT] = "call"
    /\ sim[SimT].ncall = 0
    /\ sim[SimT].task = <<SimT, 2>>
    /\ "doubao" \in sim[SimT].active
    /\ sim[SimT].strikes["doubao"] = 0
    /\ sim[JobT(1)].task = <<JobT(1), 1>>
    /\ TrailingFailures(TaskLog(<<JobT(1), 1>>), "doubao") = StrikeLimit
    /\ "doubao" \notin sim[JobT(1)].active

\* the same after the foreground thread's own first call benched doubao
C33_WitnessAfter ==
    /\ pc[SimT] = "call"
    /\ sim[SimT].ncall = 0
    /\ sim[SimT].task = <<SimT, 2>>
    /\ "doubao" \in sim[SimT].active
    /\ TrailingFailures(TaskLog(<<SimT, 1>>), "doubao") = StrikeLimit

(***************************************************************************)
(* Properties of consume (BucketSpec).                                     *)
(***************************************************************************)
\* a step that is a consume call: the clock stands still
ConsumeStep == now' = now /\ got'.op = "consume"

\* C34: consume(n) on a bucket that holds fewer than n tokens once refilled
\* raises RateLimitError, at once, and leaves the refilled count; otherwise
\* it leaves the refilled count less n.
C34_ConsumeAllOrNothing ==
    [][ ConsumeStep =>
          LET b == Refill(bucket, now)
              n == got'.n
              fewer == n > b.tokens \/ (n = b.tokens /\ b.short = 1)
          IN  /\ bucket'.updated_at = b.updated_at
              /\ bucket'.short = b.short
              /\ IF fewer
                 THEN got'.out = "RateLimitError" /\ bucket'.tokens = b.tokens
                 ELSE got'.out = "ok" /\ bucket'.tokens = b.tokens - n ]_vars

\* consume(2) was refused on a bucket of capacity 2 refilled to 1 token, and
\* the token is still there
C34_Witness ==
    /\ got.op = "consume"
    /\ got.out = "RateLimitError"
    /\ got.n = 2
    /\ bucket.capacity = 2
    /\ bucket.rate = 1
    /\ bucket.tokens = 1
    /\ bucket.updated_at = now

(***************************************************************************)
(* Properties of the tag of an observation (TagSpec).                      *)
(***************************************************************************)
StronglyNegative(o) == o.sentiment < -20

MildlyNegative(o) == o.sentiment < 0 /\ ~StronglyNegative(o)

\* C35, as claimed: a negative sentiment selects a phrase of the lexicon and
\* any other the neutral tag, and with more than one phrase in the lexicon
\* a strongly negative observation and a mildly negative one have different
\* tags.
C35_TagBySentimentClass ==
    \A i, j \in DOMAIN got.seen :
        LET o == got.seen[i]
            q == got.seen[j]
        IN  /\ o.sentiment < 0 => \E k \in DOMAIN got.tags : o.tag = got.tags[k]
            /\ o.sentiment >= 0 => o.tag = "smooth"
            /\ (Len(got.tags) > 1 /\ StronglyNegative(o) /\ MildlyNegative(q))
                  => o.tag # q.tag

\* C35, what the code does: every negative sentiment, strong or mild,
\* selects the first phrase of the lexicon, and any other the neutral tag.
C35_FirstPhraseIfNegative ==
    \A i \in DOMAIN got.seen :
        LET o == got.seen[i] IN
        /\ o.sentiment < 0 => o.tag = got.tags[1]
        /\ o.sentiment >= 0 => o.tag = "smooth"

(***************************************************************************)
(* Properties of the cache marks of a live result (LiveSpec).              *)
(***************************************************************************)
\* the prompts of iteration i and provider p that the cache served
ServedAt(i, p) ==
    {k \in DOMAIN Log : Log[k].iter = i /\ Log[k].plat = p /\ Log[k].served}

\* C36: in the result of a live call the cache note is set exactly when an
\* observation is marked cached, and an observation is marked cached exactly
\* when the cache served one of the prompts of its iteration and provider.
C36_CachedMarks ==
    Returned =>
        LET obs == res[SimT].observations IN
        /\ (res[SimT].cache_note # None) = (\E i \in DOMAIN obs : obs[i].cached)
        /\ res[SimT].cache_note \in {None, CacheNote}
        /\ \A i \in DOMAIN obs :
              obs[i].cached = (ServedAt(obs[i].iter, obs[i].platform) # {})

\* the first observation is of a discovery prompt served from the cache and
\* an answered evaluation prompt, the next of two answered prompts
C36_Witness ==
    /\ Returned
    /\ Len(res[SimT].observations) >= 2
    /\ res[SimT].observations[1].cached
    /\ ~res[SimT].observations[2].cached
    /\ Log[1].served
    /\ Log[2].outcome \in Contents
    /\ Log[2].iter = Log[1].iter
    /\ Log[2].plat = Log[1].plat
    /\ res[SimT].cache_note = CacheNote

\* C37: a degraded result of a live call has coverage false for every
\* provider and no cache note: no prompt of the call was answered and none
\* was served from the cache.
C37_DegradedIsBare ==
    (Returned /\ res[SimT].degraded) =>
        /\ \A p \in ProviderSet : ~res[SimT].coverage[p]
        /\ res[SimT].cache_note = None
        /\ \A k \in DOMAIN Log : Log[k].outcome \in Failures /\ ~Log[k].served

\* both providers failed three prompts each, with nothing in the cache
C37_Witness ==
    /\ Returned
    /\ res[SimT].degraded
    /\ Len(Log) = 2 * StrikeLimit
    /\ cache = <<>>
    /\ \A p \in ProviderSet : clients[p] /\ ~res[SimT].coverage[p]
    /\ res[SimT].cache_note = None

(***************************************************************************)
(* Properties of the trace store under two threads (SharedSpec).           *)
(***************************************************************************)
\* the recorded calls that get_trace result g has to hold: those of its task
\* id recorded before it was called whose raw time-to-live has not passed
Due(g) ==
    {k \in 1..g.since : Log[k].task = g.task /\ g.at - Log[k].at <= RawTTL}

Holds38(g) == \A k \in Due(g) : \E j \in DOMAIN g.raw : g.raw[j].content = k

\* C38: with a run and a catch-up job on one trace store, every result of
\* get_trace holds every call recorded under its task id before get_trace
\* was called, unless the raw time-to-live of the call has passed.
C38_NoRawEntryLost ==
    \A i \in DOMAIN got.seen : Holds38(got.seen[i])

\* what holds: get_trace returns only recorded calls of its task id
C38_OnlyRecorded ==
    \A i \in DOMAIN got.seen :
        \A j \in DOMAIN got.seen[i].raw :
            LET k == got.seen[i].raw[j].content IN
            /\ k \in DOMAIN Log
            /\ Log[k].task = got.seen[i].task
            /\ Log[k].at = got.seen[i].raw[j].at

(***************************************************************************)
(* Properties of the cache under the live loop (WarmSpec).                 *)
(***************************************************************************)
\* one prompt of the live loop: a failed prompt served from the cache leaves
\* the cache as it was, and an entry that is new or changed after the prompt
\* is the prompt's own, holds the call that was just answered, not marked
\* cached, and the time of the answer
C39_Prompt ==
    LET s == sim[SimT]
        s2 == sim'[SimT]
        key == CacheKeyOf(s.plat, BuildPrompt(s.ptype, req[SimT]))
        hit == key \in DOMAIN cache /\ now - cache[key].ts <= CacheTTL
    IN  (pc[SimT] = "call" /\ s2.ncall = s.ncall + 1)
        => /\ (s2.last.outcome \in {"exhausted", "nochoices"} /\ hit)
                => cache' = cache /\ ~cache[key].call.cached
           /\ \A k \in DOMAIN cache' :
                 (k \notin DOMAIN cache \/ cache'[k] # cache[k])
                 => /\ k = key
                    /\ s2.last.outcome \in Contents
                    /\ cache'[k] = [ts |-> now,
                                    call |-> [task |-> s.task, platform |-> s.plat,
                                              ptype |-> s.ptype,
                                              content |-> s2.last.outcome,
                                              sentiment |-> ScoreSentiment(s2.last.outcome),
                                              cached |-> FALSE]]

\* C39: a prompt served from the response cache leaves the cache as it was,
\* the stored call not marked cached and with the time of its write, and an
\* entry is written or overwritten only by an answered prompt of its own
\* provider and prompt.
C39_HitLeavesCache == [][C39_Prompt]_vars

\* a call returned with the cache note: the entry that was served is a day
\* old as before and not marked cached, the entry of the other provider was
\* overwritten by an answer of this call
C39_Witness ==
    /\ pc[SimT] = "simret"
    /\ sim[SimT].fin
    /\ res[SimT].cache_note = CacheNote
    /\ res[SimT].observations[1].cached
    /\ LET kept == CacheKeyOf("doubao", BuildPrompt("discovery", req[SimT]))
           over == CacheKeyOf("deepseek", BuildPrompt("discovery", req[SimT]))
       IN  /\ kept \in DOMAIN cache
           /\ cache[kept].ts = 0 - CacheTTL
           /\ ~cache[kept].call.cached
           /\ over \in DOMAIN cache
           /\ cache[over].ts = now
           /\ cache[over].call.task = sim[SimT].task

(***************************************************************************)
(* Properties of a run that raises (Spec).                                 *)
(***************************************************************************)
RunErrors == {"ValidationError", "SensitiveContentError"}

\* the step in which run raises changes neither the version counters nor the
\* pending set, starts no job and sends no message
C40_RaisingStep ==
    \A t \in RunThreads :
        (pc[t] # "raised" /\ pc'[t] = "raised" /\ err'[t] \in RunErrors) =>
            /\ versionStore' = versionStore
            /\ pending' = pending
            /\ messages' = messages
            /\ issued' = issued
            /\ spawned' = spawned
            /\ \A j \in JobThreads : pc'[j] = pc[j]

\* a run that raised has taken no version, sent nothing and started no job,
\* and every version handed out for a key is the number of reports and
\* updates of that key so far
C40_OnlyReportsCount ==
    /\ \A t \in RunThreads :
          (pc[t] = "raised" /\ err[t] \in RunErrors) =>
              /\ IssuedBy(t) = {}
              /\ SentBy(t) = {}
              /\ ~spawned[t]
              /\ pc[JobOf(t)] = "none"
              /\ report[t] = NoReport
    /\ \A i \in DOMAIN issued :
          issued[i].version = Cardinality({j \in IssuedFor(issued[i].key) : j <= i})
    /\ \A k \in DOMAIN versionStore : versionStore[k] = Cardinality(IssuedFor(k))

\* C40: a run that raises ValidationError or SensitiveContentError, from the
\* request or from a provider response, leaves the version counters and the
\* pending set as they were, starts no job and sends no message, and the
\* versions of the reports of a key count the reports only.
C40_RaisedRunLeavesEngine == [][C40_RaisingStep]_vars /\ []C40_OnlyReportsCount

\* the first run was stopped by a blocked answer of a provider, the second,
\* with the same request, returned the first version of its key
C40_Witness ==
    /\ pc[RunT(1)] = "raised"
    /\ err[RunT(1)] = "SensitiveContentError"
    /\ Validate(req[RunT(1)]) = None
    /\ pc[RunT(2)] = "done"
    /\ VersionKey(req[RunT(2)]) = VersionKey(req[RunT(1)])
    /\ report[RunT(2)].version = 1
    /\ versionStore[VersionKey(req[RunT(1)])] = 1

====
